---- MODULE Spec2Model ----
(***************************************************************************)
(* Registry pagination, monitored-repository merge, transport/auth and     *)
(* audit-log behaviour of the container registry card catalog.             *)
(*                                                                         *)
(* The module holds these specifications over groups of variables:         *)
(*   SpecCall  one RegistryManager.get_repositories call on drawn inputs   *)
(*   Spec      a RepositoryScreen listing session (initial load, load-more,*)
(*             token expiry, sort toggle, refresh)                         *)
(*   SpecFinish  the same session with load-more triggered again and again *)
(*             (weak fairness of the initial load and of load-more)        *)
(*   SpecAuth  RegistryClient._make_request / _get_auth_headers /          *)
(*             _get_registry_token on one client                           *)
(*   SpecLog   RegistryManager.api_call_log with add_api_call and the      *)
(*             debug console's load and purge                              *)
(*   SpecWorker  the exclusive fetch workers of one RepositoryScreen, cut  *)
(*             at their awaits, and the load-more triggers                 *)
(*   SpecTags  the recent tags computed from one tags answer               *)
(*   SpecStatus  the classification of one check_registry_status call      *)
(*   SpecToken  one _get_registry_token call, cut at its two requests      *)
(*   SpecEnrich  the tags requests of one pagination step around the       *)
(*             50-name threshold                                           *)
(*   SpecRedact  one key/value pair through the log mask, the response     *)
(*             header filter and the audit-log writers                     *)
(*   SpecProbe  the status workers of the registry list, cut at their      *)
(*             awaits, and the sort toggle of the list                     *)
(*   SpecConfig  a configuration save from the modal through the handlers  *)
(*             of the app and of the open RepositoryScreen                 *)
(* Each specification leaves the groups of the others unchanged            *)
(* (SpecWorker also uses the screen's variables of Spec, SpecToken those   *)
(* of SpecAuth, SpecEnrich those of SpecCall).                             *)
(*                                                                         *)
(* Repository names are integers; LowerKey(n) is the key name.lower()      *)
(* sorts by (names 2k-1 and 2k differ only in case).  Name 0 is never in   *)
(* the catalog.  A continuation token is the catalog position the next     *)
(* page starts at; 0 stands for None / the empty string (both falsy).      *)
(***************************************************************************)
EXTENDS Integers, Sequences, FiniteSets, TLC

VARIABLES
    \* the registry server and the registry configuration
    srvN, srvCap, srvEager, srvNextParam, srvTags, srvCatalog, monitored_repos,
    \* SpecCall: the inputs and the result of one get_repositories call
    callOffset, callLimit, callDone, callResult,
    \* Spec: the RepositoryScreen, the registry's view of the stored token
    \* (tokenRejected, rejectStatus) and a record of the last step (lastStep)
    max_repos, repository_data, all_repositories_loaded, next_page_token,
    pagination_method, sort_reversed, phase, tokenRejected, rejectStatus,
    lastStep,
    \* SpecAuth: one RegistryClient, the clock, the position inside
    \* _make_request (pc) and a record of the current call (req, hdr)
    auth_type, username, password, cached_token, token_expires_at,
    auth_realm, auth_service, now, pc, req, hdr, sentExpired,
    \* SpecLog: RegistryManager.api_call_log, the debug console's mode and
    \* flag, every record put into the log since it was last emptied (hist)
    api_call_log, mock_mode, mock_data_loaded, nextId, hist, lastOp,
    \* SpecWorker: the fetch workers of one RepositoryScreen, the number of
    \* fetch calls they have issued and a record of the last UI event
    workers, wRequests, wTrigger, local_runtime,
    \* SpecTags: one tags answer (tag list, manifest metadata) and the recent
    \* tags computed from it
    all_tags, manifest_metadata, recent_tags, tagsDone,
    \* SpecStatus: the answers one check_registry_status call receives (status
    \* codes; -1 for a request that is not made), the registry configuration
    \* and the status the call returns
    version_response, catalog_response, test_response, registry_config, registry_status, repo_count,
    \* SpecToken: a record of the current _get_registry_token call
    tok,
    \* one key/value pair and the entry a log writer stored for it
    rKey, rValue, rIsStr, stored,
    \* SpecProbe: the registry list of the ContainerCardCatalog screen (the
    \* entries, the rows of the table) and its status workers
    registries, registry_data, registry_table, app_sort_reversed, probes,
    \* SpecConfig: the registry configuration in the app, in the open
    \* RepositoryScreen and in the config file, the ConfigSaved message in
    \* flight and the monitored lists at the time it was posted
    app_registry_config, file_registry_config, screen_url, screen_registry_config, config_message, saved_before

serverVars == <<srvN, srvCap, srvEager, srvNextParam, srvTags, srvCatalog,
               monitored_repos>>

callVars == <<callOffset, callLimit, callDone, callResult>>

sessionVars == <<max_repos, repository_data, all_repositories_loaded,
                 next_page_token, pagination_method, sort_reversed, phase,
                 tokenRejected, rejectStatus, lastStep>>

authVars == <<auth_type, username, password, cached_token, token_expires_at,
              auth_realm, auth_service, now, pc, req, hdr, sentExpired>>

logVars == <<api_call_log, mock_mode, mock_data_loaded, nextId, hist, lastOp>>

workerVars == <<workers, wRequests, wTrigger, local_runtime>>

tagVars == <<all_tags, manifest_metadata, recent_tags, tagsDone>>

statusVars == <<version_response, catalog_response, test_response, registry_config,
                registry_status, repo_count>>

tokenVars == <<tok>>

redactVars == <<rKey, rValue, rIsStr, stored>>

probeVars == <<registries, registry_data, registry_table, app_sort_reversed, probes>>

configVars == <<app_registry_config, file_registry_config, screen_url, screen_registry_config, config_message, saved_before>>

vars == <<serverVars, callVars, sessionVars, authVars, logVars, workerVars, tagVars, statusVars, tokenVars, redactVars, probeVars, configVars>>

----------------------------------------------------------------------------
(* Bounds of the model *)

MaxTags == 4      \* tags of one repository
MaxWorkers == 3   \* workers started on one RepositoryScreen
MaxCat == 3       \* small catalogs hold 0..MaxCat repositories
MaxCap == 2       \* capped servers return at most 1..MaxCap names per page
MaxOffset == 1    \* offsets drawn for a single call

(* Program constants *)

PageMax == 100    \* page_size = min(100, limit + offset)
TagLoadMax == 50  \* load_tags = len(repositories) <= 50

----------------------------------------------------------------------------
(* Helpers *)

Min2(a, b) == IF a <= b THEN a ELSE b

\* name.lower(): names 2k-1 and 2k are the same name in different case
LowerKey(n) == (n + 1) \div 2

\* every name of the model is at most NameMax
NameMax == 2 * PageMax + MaxCat + 1

\* list.sort(key=lambda x: x['name'].lower(), reverse=rev): a stable sort in
\* both directions (reverse=True keeps the original order of equal keys).
\* Computed by splitting the key range lo..hi: entries with equal keys keep
\* their order, so the result is the one any stable sort gives.
RECURSIVE SortRange(_, _, _, _)
SortRange(s, lo, hi, rev) ==
    IF Len(s) <= 1 \/ lo >= hi
    THEN s
    ELSE LET mid  == (lo + hi) \div 2
             low  == SortRange(SelectSeq(s, LAMBDA e : LowerKey(e.name) <= mid), lo, mid, rev)
             high == SortRange(SelectSeq(s, LAMBDA e : LowerKey(e.name) > mid), mid + 1, hi, rev)
         IN  IF rev THEN high \o low ELSE low \o high

MutSortByName(s, rev) == s

\* list.sort(key=lambda x: x['name'].lower(), reverse=rev): stable in both
\* directions
SortByName(s, rev) == SortRange(s, 0, LowerKey(NameMax), rev)

----------------------------------------------------------------------------
(* Tags and their order (sort_tags_by_timestamp)                           *)

\* tag names: 1 and 2 differ only in case, and so do 3 and 4; 3 is the tag
\* "latest"
TagPool == 1..4

Latest == 3

RecentMax == 3    \* sorted_tags[:3]

\* int(time_uploaded) if time_uploaded != "0" else int(time_created)
Timestamp(m) == IF m.timeUploadedMs # 0 THEN m.timeUploadedMs ELSE m.timeCreatedMs

\* tag_timestamps.get(tag_name, 0)
TagTimestamps(meta) ==
    [t \in TagPool |-> IF meta[t].present THEN Timestamp(meta[t]) ELSE 0]

\* (-timestamp, tag_name.lower()) of a is smaller than that of b
TagKeyLess(a, b, stamps) ==
    \/ stamps[a] > stamps[b]
    \/ stamps[a] = stamps[b] /\ LowerKey(a) < LowerKey(b)

\* sorted(tags_list, key=...): stable, so t goes behind every tag whose key
\* is not larger than its own
InsertTag(sorted, t, stamps) ==
    LET before == {i \in 1..Len(sorted) : ~TagKeyLess(t, sorted[i], stamps)}
        n      == Cardinality(before)
    IN  SubSeq(sorted, 1, n) \o <<t>> \o SubSeq(sorted, n + 1, Len(sorted))

RECURSIVE SortedBy(_, _)
SortedBy(tags, stamps) ==
    IF tags = <<>> THEN <<>>
    ELSE InsertTag(SortedBy(SubSeq(tags, 1, Len(tags) - 1), stamps),
                   tags[Len(tags)], stamps)

sort_tags_by_timestamp(tags_list, meta) ==
    IF \A t \in TagPool : ~meta[t].present
    THEN SortedBy(tags_list, [t \in TagPool |-> 0])
    ELSE SortedBy(tags_list, TagTimestamps(meta))

\* recent_tags = sorted_tags[:3]
RecentTags(tags, meta) ==
    LET sorted_tags == sort_tags_by_timestamp(tags, meta)
    IN  SubSeq(sorted_tags, 1, Min2(RecentMax, Len(sorted_tags)))

----------------------------------------------------------------------------
(* The registry server (GET /v2/_catalog and GET /v2/<repo>/tags/list)     *)

\* the order in which the registry lists its repositories
CatalogOrder(i) == IF i = 2 THEN 3 ELSE IF i = 3 THEN 2 ELSE i

Catalog(N) == [i \in 1..N |-> CatalogOrder(i)]

\* names the user may monitor: 0 is in no catalog, 1 and 3 are in catalogs
\* of at least 1 and 2 repositories
MonPool == {0, 1, 3}

\* what GET /v2/<repo>/tags/list answers: "ok" is 200 with a tags list,
\* "http" a non-200 status, "bad" a 200 whose body has no usable tags list
\* (not JSON, or "tags": null)
TagOutcomes == {"ok", "http", "bad"}

TagsOutcome(tags, n) == IF n \in DOMAIN tags THEN tags[n] ELSE "ok"

\* what GET /v2/_catalog answers: "ok" is 200 with a JSON body, "fail" a
\* non-200 status (or a transport failure, status_code 0), "bad" a 200 whose
\* body is not JSON
CatalogOutcomes == {"ok", "fail", "bad"}

\* GET /v2/_catalog?n=<n>&next_page=<token> on a catalog of srv.N names: the
\* server returns at most min(n, cap) names from the token's position and a
\* Link rel="next" header while names remain; an eager server also sends one
\* after every full page.  The next URL names the position of the following
\* page, in its next_page query parameter or (nextParam false) in another one
ServerCatalog(srv, n, token) ==
    LET start == IF token = 0 THEN 1 ELSE token
        avail == IF srv.N >= start THEN srv.N - start + 1 ELSE 0
        want  == Min2(n, srv.cap)
        count == Min2(want, avail)
        more  == start + count <= srv.N
        link  == more \/ (srv.eager /\ count = want /\ count > 0)
    IN  IF srv.catalog = "ok"
        THEN [status       |-> 200,
              json         |-> TRUE,
              repositories |-> SubSeq(Catalog(srv.N), start, start + count - 1),
              hasNext      |-> link,
              nextToken    |-> IF link THEN start + count ELSE 0,
              nextParam    |-> srv.next_param]
        ELSE [status       |-> IF srv.catalog = "fail" THEN 500 ELSE 200,
              json         |-> FALSE,
              repositories |-> <<>>,
              hasNext      |-> FALSE,
              nextToken    |-> 0,
              nextParam    |-> srv.next_param]

----------------------------------------------------------------------------
(* RegistryManager.get_repositories                                        *)

\* an entry of the listing; tag_count is "Count" (len(all_tags)), "Zero"
\* (tags request failed for a catalog entry), "Many" (tags not loaded) or
\* "Error" (monitored repository whose fetch failed)
Entry(n, tc, mon, err) ==
    [name |-> n, tag_count |-> tc, is_monitored |-> mon, is_error |-> err]

\* the monitored repositories whose tags fetch took the success path
MonitoredOk(mon, tags) == SelectSeq(mon, LAMBDA n : TagsOutcome(tags, n) = "ok")

\* failed_monitored_repos: a non-200 answer, or an exception while reading it
FailedMonitored(mon, tags) ==
    LET names == SelectSeq(mon, LAMBDA n : TagsOutcome(tags, n) # "ok")
    IN  [i \in 1..Len(names) |->
            [name  |-> names[i],
             error |-> IF TagsOutcome(tags, names[i]) = "http"
                       THEN "Status" ELSE "Exception"]]

\* "Stop if this page was smaller than requested"
ShortPageStops(pageLen, page_size) == pageLen < page_size

\* the while loop over catalog pages; returns the accumulated names, the last
\* token seen, the tokens of the catalog requests in the order they were
\* issued (0 for a request without next_page) and why the loop ended:
\* "target" (offset + limit names reached), "failed" (non-200), "empty" (a
\* page without repositories), "no_next" (no Link header or no rel="next"),
\* "short" (a page smaller than requested), "raised" (a 200 answer without a
\* JSON body: catalog_response.get("json", {}) is None and .get raises)
LoopEnd(all, token, sent, stop) ==
    [all |-> all, token |-> token, page_count |-> Len(sent), stop |-> stop,
     tokens |-> sent]

\* _extract_next_page_token on the next URL of an answer:
\* params.get('next_page', [''])[0]
ExtractNextPageToken(resp) == IF resp.nextParam THEN resp.nextToken ELSE 0

MutTargetReached(count, target) == count > target

\* the loop's guard, negated: "while len(all_repositories) < (offset + limit)"
TargetReached(count, target) == count >= target

RECURSIVE CatalogLoop(_, _, _, _, _, _)
CatalogLoop(srv, target, page_size, all, token, sent) ==
    IF TargetReached(Len(all), target)
    THEN LoopEnd(all, token, sent, "target")
    ELSE LET resp == ServerCatalog(srv, page_size, token)
             reqs == Append(sent, token)
             page == resp.repositories
         IN  IF resp.status # 200
             THEN LoopEnd(all, token, reqs, "failed")
             ELSE IF ~resp.json
             THEN LoopEnd(all, token, reqs, "raised")
             ELSE IF page = <<>>
             THEN LoopEnd(all, token, reqs, "empty")
             ELSE IF ~resp.hasNext
             THEN LoopEnd(all \o page, token, reqs, "no_next")
             ELSE IF ShortPageStops(Len(page), page_size)
             THEN LoopEnd(all \o page, ExtractNextPageToken(resp), reqs, "short")
             ELSE CatalogLoop(srv, target, page_size, all \o page,
                              ExtractNextPageToken(resp), reqs)

\* all_repositories[offset:offset + limit]
Window(all, offset, limit) ==
    SubSeq(all, offset + 1, Min2(offset + limit, Len(all)))

\* the "pagination" part of the result
PaginationOf(token, total, page_count) ==
    [method          |-> IF token # 0 THEN "link_header" ELSE "complete",
     next_page_token |-> token,
     total_loaded    |-> total,
     page_count      |-> page_count,
     has_more        |-> token # 0]

\* monitored_repo_data after the failed ones are added as error entries
MonitoredEntries(mon, tags) ==
    LET ok     == MonitoredOk(mon, tags)
        failed == FailedMonitored(mon, tags)
    IN  [i \in 1..Len(ok) |-> Entry(ok[i], "Count", TRUE, FALSE)]
        \o [i \in 1..Len(failed) |-> Entry(failed[i].name, "Error", TRUE, TRUE)]

MutLoadTags(count) == count <= TagLoadMax + 1

\* load_tags = len(repositories) <= 50
LoadTags(count) == count <= TagLoadMax

\* repo_data: one entry per name of the window
CatalogEntries(repositories, tags) ==
    LET load_tags == LoadTags(Len(repositories))
    IN  [i \in 1..Len(repositories) |->
            Entry(repositories[i],
                  IF ~load_tags THEN "Many"
                  ELSE IF TagsOutcome(tags, repositories[i]) = "ok" THEN "Count"
                  ELSE "Zero",
                  FALSE, FALSE)]

\* the tags loop over the window is not guarded: a 200 answer without a
\* usable tags list raises out of get_repositories
CatalogTagsRaise(repositories, tags) ==
    /\ LoadTags(Len(repositories))
    /\ \E i \in 1..Len(repositories) : TagsOutcome(tags, repositories[i]) = "bad"

\* the tags requests the loop over the window issues: none when tags are
\* not loaded, else one per name up to the one whose answer raises
CatalogTagsRequests(repositories, tags) ==
    LET bad == {i \in 1..Len(repositories) :
                   TagsOutcome(tags, repositories[i]) = "bad"}
    IN  IF ~LoadTags(Len(repositories)) THEN 0
        ELSE IF bad = {} THEN Len(repositories)
        ELSE CHOOSE i \in bad : \A j \in bad : i <= j

\* catalog_repo_data: repo_data without the successfully fetched monitored names
MutFilterMonitored(repo_data, mon, tags) == repo_data

FilterMonitored(repo_data, mon, tags) ==
    LET ok    == MonitoredOk(mon, tags)
        names == {ok[i] : i \in 1..Len(ok)}
    IN  SelectSeq(repo_data, LAMBDA e : e.name \notin names)

NoPagination == PaginationOf(0, 0, 0)

\* the result assembled from the loop's outcome and the window
\* all_repositories[offset:offset + limit]
AssembleResult(srv, mon, loop, repositories) ==
    LET repo_data == CatalogEntries(repositories, srv.tags)
        monitored == SortByName(MonitoredEntries(mon, srv.tags), FALSE)
        catalog   == SortByName(FilterMonitored(repo_data, mon, srv.tags), FALSE)
        raised    == loop.stop = "raised" \/ CatalogTagsRaise(repositories, srv.tags)
    IN  [raised       |-> raised,
         repositories |-> IF raised THEN <<>> ELSE monitored \o catalog,
         pagination   |-> IF raised THEN NoPagination
                          ELSE PaginationOf(loop.token, Len(loop.all), loop.page_count),
         failed       |-> IF raised THEN <<>> ELSE FailedMonitored(mon, srv.tags),
         stop         |-> loop.stop,
         tokens       |-> loop.tokens,
         fetched      |-> Len(loop.all),
         enriched     |-> Len(repositories),
         tag_requests |-> CatalogTagsRequests(repositories, srv.tags)]

GetRepositories(srv, limit, mon, offset) ==
    LET page_size == Min2(PageMax, limit + offset)
        loop      == CatalogLoop(srv, offset + limit, page_size, <<>>, 0, <<>>)
    IN  AssembleResult(srv, mon, loop, Window(loop.all, offset, limit))

----------------------------------------------------------------------------
(* SpecCall: one get_repositories call on drawn inputs                     *)

Srv ==
    [N |-> srvN, cap |-> srvCap, eager |-> srvEager,
     next_param |-> srvNextParam, tags |-> srvTags,
     catalog |-> srvCatalog]

CatSizes == (0..MaxCat) \cup {PageMax, PageMax + 1}
PageCaps == (1..MaxCap) \cup {PageMax}
Limits   == (1..MaxCat) \cup {PageMax, PageMax + 1}

\* duplicate-free monitored lists of at most two names
MonConfigs ==
    {<<>>} \cup {<<a>> : a \in MonPool}
           \cup {s \in {<<a, b>> : a \in MonPool, b \in MonPool} : s[1] # s[2]}

SeqRange(s) == {s[i] : i \in 1..Len(s)}

\* the tags requests that may answer anything but "ok": those of the
\* configured monitored repositories and, when nothing is monitored, that of
\* the first catalog repository
TagConfigs(mon) ==
    LET may_fail == IF mon = <<>> THEN {1} ELSE SeqRange(mon)
    IN  {t \in [MonPool -> TagOutcomes] : \A n \in MonPool \ may_fail : t[n] = "ok"}

NoResult ==
    [raised |-> FALSE, repositories |-> <<>>, pagination |-> NoPagination,
     failed |-> <<>>, stop |-> "none", tokens |-> <<>>, fetched |-> 0,
     enriched |-> 0, tag_requests |-> 0]

\* the value of each group of variables while another specification runs

ServerIdle ==
    /\ srvN = 0 /\ srvCap = 1 /\ srvEager = FALSE /\ srvCatalog = "ok"
    /\ srvNextParam = TRUE
    /\ monitored_repos = <<>>
    /\ srvTags = [n \in MonPool |-> "ok"]

CallIdle ==
    /\ callOffset = 0 /\ callLimit = 1 /\ callDone = FALSE
    /\ callResult = NoResult

NoStep ==
    [op |-> "none", remaining |-> FALSE, appended |-> 0, offset |-> 0,
     notice |-> "none"]

\* RepositoryScreen.__init__
ScreenInit ==
    /\ repository_data = <<>>
    /\ all_repositories_loaded = FALSE
    /\ next_page_token = 0
    /\ pagination_method = "unknown"
    /\ sort_reversed = FALSE

SessionIdle ==
    /\ max_repos = 1
    /\ ScreenInit
    /\ phase = "mounted"
    /\ tokenRejected = FALSE /\ rejectStatus = 0
    /\ lastStep = NoStep

\* one _make_request call: endpoint GETs issued (gets), HTTP requests of any
\* kind issued (sent), the answers, whether a token was acquired, where an
\* exception was raised (exc), the record returned (returned, error) and the
\* audit records the caller appended for the call (logged)
NoReq ==
    [gets |-> 0, sent |-> 0, first |-> -1, second |-> -1, token |-> FALSE,
     exc |-> "none", returned |-> -1, error |-> FALSE, logged |-> 0]

NoHdr ==
    [called |-> FALSE, mode |-> "none", token_before |-> 0, expires_before |-> 0,
     at |-> 0, header |-> "none", token_after |-> 0]

\* RegistryClient.__init__: the token cache starts empty
ClientInit ==
    /\ cached_token = 0
    /\ token_expires_at = 0
    /\ auth_realm = FALSE
    /\ auth_service = FALSE

AuthIdle ==
    /\ auth_type = "none" /\ username = FALSE /\ password = FALSE
    /\ ClientInit
    /\ now = 0 /\ pc = "idle" /\ req = NoReq /\ hdr = NoHdr
    /\ sentExpired = FALSE

NoOp == [op |-> "none", before |-> 0]

\* RegistryManager.__init__
ManagerInit == api_call_log = <<>>

LogIdle ==
    /\ ManagerInit
    /\ mock_mode = FALSE /\ mock_data_loaded = FALSE
    /\ nextId = 1 /\ hist = <<>> /\ lastOp = NoOp

\* a worker slot: the coroutine it runs (kind), its state, the call it awaits
\* (stage) and the number of rows it has appended to repository_data
NoWorker == [kind |-> "none", state |-> "unused", stage |-> "none", appended |-> 0]

\* the last UI event: its kind, the value all_repositories_loaded had when it
\* arrived, and whether it started a worker
NoTrigger == [kind |-> "none", loaded |-> FALSE, started |-> FALSE]

WorkerIdle ==
    /\ workers = [w \in 1..MaxWorkers |-> NoWorker]
    /\ wRequests = 0
    /\ wTrigger = NoTrigger
    /\ local_runtime = FALSE

\* a tag without an entry in the manifest metadata
NoManifest == [present |-> FALSE, timeUploadedMs |-> 0, timeCreatedMs |-> 0]

TagsIdle ==
    /\ all_tags = <<>>
    /\ manifest_metadata = [t \in TagPool |-> NoManifest]
    /\ recent_tags = <<>>
    /\ tagsDone = FALSE

\* repo_count "Unknown"; a known count is "<total>(<monitored>)", or
\* "<total>" alone with monitored = -1
UnknownCount == [known |-> FALSE, total |-> 0, monitored |-> -1]

NoStatus == [status |-> "none", connection_status |-> "none", code |-> -1]

\* a registry entry without credentials and without monitored repositories
NoConfig == [username |-> FALSE, password |-> FALSE, monitored |-> FALSE]

StatusIdle ==
    /\ version_response = -1 /\ catalog_response = -1 /\ test_response = -1
    /\ registry_config = NoConfig
    /\ registry_status = NoStatus
    /\ repo_count = UnknownCount

\* one _get_registry_token call: challenge probes and token POSTs issued,
\* what it returned ("pending" while it runs, "None" or "token"), where an
\* exception was raised inside it, the status of the token answer (-1: none)
\* and whether a realm was known when the probe part was over
\* the expires_in of a token answer: absent (or null), a number, or a value
\* int() does not take
NoExpiresIn == [given |-> FALSE, numeric |-> TRUE, value |-> 0]

NoTok ==
    [probes |-> 0, posts |-> 0, result |-> "none", exc |-> "none",
     post_status |-> -1, realm |-> FALSE,
     token_answer |-> FALSE, at |-> 0, expires_in |-> NoExpiresIn,
     issued_at |-> FALSE]

TokenIdle == tok = NoTok

\* no entry stored yet; the pair of a specification that logs nothing
NoEntry == [writer |-> "none", kept |-> FALSE, value |-> <<>>,
            auth_format |-> <<>>, auth_header |-> <<>>, filtered |-> TRUE]

RedactIdle == rKey = <<>> /\ rValue = <<>> /\ rIsStr = TRUE /\ stored = NoEntry

\* a status worker slot: check_real_registries ("check_all", at position pos
\* of self.registries) or _refresh_single_registry ("single"); row_index is
\* the index the worker looked up, counted from 1
NoProbe ==
    [kind |-> "none", state |-> "unused", url |-> 0, row_index |-> 0, pos |-> 0]

\* no ConfigSaved message
NoMessage == [registry_url |-> 0]

\* no RepositoryScreen is open: its registry_config is the empty dict
NoScreenConfig == [auth_type |-> "none", max_repos |-> 0, monitored_repos |-> <<>>]

ConfigIdle ==
    /\ app_registry_config = <<>>
    /\ file_registry_config = <<>>
    /\ screen_url = 0
    /\ screen_registry_config = NoScreenConfig
    /\ config_message = NoMessage
    /\ saved_before = <<>>

ProbeIdle ==
    /\ registries = <<>>
    /\ registry_data = <<>>
    /\ registry_table = <<>>
    /\ app_sort_reversed = FALSE
    /\ probes = <<>>

InitServer ==
    /\ srvN \in CatSizes
    /\ srvCap \in PageCaps
    /\ srvEager \in BOOLEAN
    /\ srvNextParam \in BOOLEAN
    /\ srvCatalog \in CatalogOutcomes
    /\ monitored_repos \in MonConfigs
    /\ srvTags \in TagConfigs(monitored_repos)

InitCall ==
    /\ InitServer
    /\ callOffset \in 0..MaxOffset
    /\ callLimit \in Limits
    \* a failing catalog endpoint is drawn for uncapped servers and offset 0
    /\ srvCatalog # "ok" =>
          (~srvEager /\ srvNextParam /\ srvCap = PageMax /\ callOffset = 0)
    /\ callDone = FALSE
    /\ callResult = NoResult
    /\ SessionIdle /\ AuthIdle /\ LogIdle /\ WorkerIdle /\ TagsIdle /\ StatusIdle /\ TokenIdle /\ RedactIdle /\ ProbeIdle /\ ConfigIdle

CallGetRepositories ==
    /\ ~callDone
    /\ callDone' = TRUE
    /\ callResult' = GetRepositories(Srv, callLimit, monitored_repos, callOffset)
    /\ UNCHANGED <<serverVars, callOffset, callLimit, sessionVars, authVars, logVars,
                   workerVars, tagVars, statusVars, tokenVars, redactVars,
                   probeVars, configVars>>

NextCall == CallGetRepositories

SpecCall == InitCall /\ [][NextCall]_vars

----------------------------------------------------------------------------
(* Claims about one get_repositories call (SpecCall)                       *)

Names(entries) == {entries[i].name : i \in 1..Len(entries)}

RowsNamed(entries, n) == {i \in 1..Len(entries) : entries[i].name = n}

Returned == callDone /\ ~callResult.raised

\* C1: with proper Link headers (a next link on every page but the last) and
\* no monitored repositories, get_repositories(offset=0, limit=N) on a
\* catalog of N names returns exactly the N names, each once, for every
\* server page size.
C1_PaginationComplete ==
    (/\ callDone
     /\ srvCatalog = "ok" /\ srvTags[1] = "ok"
     /\ ~srvEager /\ srvNextParam
     /\ monitored_repos = <<>>
     /\ callOffset = 0
     /\ callLimit = srvN)
    => /\ ~callResult.raised
       /\ Len(callResult.repositories) = srvN
       /\ Names(callResult.repositories) = SeqRange(Catalog(srvN))

\* C2: in one result every monitored repository whose tags fetch succeeded
\* has exactly one row, that row is flagged is_monitored, and every
\* monitored row precedes every catalog row.
C2_MonitoredOnceAndFirst ==
    Returned =>
        LET rows == callResult.repositories
            ok   == MonitoredOk(monitored_repos, srvTags)
        IN  /\ \A k \in 1..Len(ok) :
                  /\ Cardinality(RowsNamed(rows, ok[k])) = 1
                  /\ \A i \in RowsNamed(rows, ok[k]) :
                        rows[i].is_monitored /\ ~rows[i].is_error
            /\ \A i, j \in 1..Len(rows) :
                  (rows[i].is_monitored /\ ~rows[j].is_monitored) => i < j

\* the example of the specification: catalog of three names, one of them
\* monitored together with a name the catalog does not list, both fetched
C2_Witness ==
    /\ Returned
    /\ srvN = 3 /\ callOffset = 0 /\ callLimit = 3
    /\ monitored_repos = <<3, 0>>
    /\ srvTags[3] = "ok" /\ srvTags[0] = "ok"
    /\ Len(callResult.repositories) = 4
    /\ callResult.repositories[3].name = 1
    /\ ~callResult.repositories[3].is_monitored

\* C3: when the tags fetch of a monitored repository fails (non-200 or an
\* exception), get_repositories still returns: every name of the catalog
\* window that is not a fetched monitored name as a catalog row, every
\* fetched monitored repository, exactly one is_monitored is_error row for
\* the failed one, and the failed one in monitored_repos_status.failed.
C3_MonitoredFailureIsolated ==
    (/\ callDone
     /\ srvCatalog = "ok"
     /\ Len(FailedMonitored(monitored_repos, srvTags)) > 0) =>
        LET rows   == callResult.repositories
            ok     == MonitoredOk(monitored_repos, srvTags)
            failed == FailedMonitored(monitored_repos, srvTags)
            window == Window(Catalog(srvN), callOffset, callLimit)
        IN  /\ ~callResult.raised
            /\ \A k \in 1..Len(failed) :
                  /\ Cardinality({i \in RowsNamed(rows, failed[k].name) :
                                     rows[i].is_monitored /\ rows[i].is_error}) = 1
                  /\ \E f \in 1..Len(callResult.failed) :
                        callResult.failed[f].name = failed[k].name
            /\ \A k \in 1..Len(ok) : \E i \in RowsNamed(rows, ok[k]) : rows[i].is_monitored

\* C5: when the catalog loop ends on a page without a next link or on an
\* empty page, the result reports has_more = false, method "complete" and
\* no next_page_token.
C5_CompletionSignal ==
    (Returned /\ callResult.stop \in {"no_next", "empty"}) =>
        /\ callResult.pagination.has_more = FALSE
        /\ callResult.pagination.method = "complete"
        /\ callResult.pagination.next_page_token = 0

\* C27: in one get_repositories call every catalog request after the first
\* carries a non-empty continuation token, and no two catalog requests of
\* the call carry the same token (the first carries none); a next link
\* without a next_page parameter does not make the call repeat the
\* first-page request.
C27_TokensFreshAndNonEmpty ==
    callDone =>
        LET sent == callResult.tokens
        IN  /\ \A i \in 2..Len(sent) : sent[i] # 0
            /\ \A i, j \in 1..Len(sent) : i < j => sent[i] # sent[j]

\* C28: no two entries of one get_repositories result have the same name
\* (the catalog lists distinct names, the monitored list has no duplicate),
\* also when a monitored repository whose fetch failed is in the catalog
\* window.
C28_UniqueNames ==
    (Returned /\ srvNextParam) =>
        LET rows == callResult.repositories
        IN  \A i, j \in 1..Len(rows) : i < j => rows[i].name # rows[j].name

\* C12: get_repositories returns a result without raising whatever the
\* registry answers, and a repository whose tags answer is unusable is
\* still listed.
C12_NoExceptionEscapes ==
    callDone =>
        /\ ~callResult.raised
        /\ \A n \in SeqRange(Window(Catalog(srvN), callOffset, callLimit)) :
              srvCatalog = "ok" => n \in Names(callResult.repositories)

\* C36: the catalog loop of one get_repositories call ends: every request
\* but the last one added at least one name to the accumulated list, so the
\* call issues at most offset + limit catalog requests.
C36_LoopBound ==
    callDone =>
        /\ Len(callResult.tokens) <= callOffset + callLimit
        /\ Len(callResult.tokens) <= callResult.fetched + 1

\* a call whose loop went round twice, each request adding a full page,
\* before the target was reached
C36_Witness ==
    /\ callDone
    /\ callResult.stop = "target"
    /\ Len(callResult.tokens) = 2
    /\ callResult.fetched >= callOffset + callLimit

----------------------------------------------------------------------------
(* Spec: a RepositoryScreen listing session against a real registry        *)

\* load-more is not taken once this many rows, and as many as the catalog
\* has names, are listed
MaxRows == 6

BatchSize == 100      \* batch_size = 100  # Load 100 more at a time
DefaultLimit == 100   \* actual_limit = 100  # Default fallback

FallbackMethod == "offset_fallback_due_to_expiration"

\* what a continuation request with a token the registry no longer accepts
\* (or cannot serve) answers
RejectStatuses == {400, 401, 500}

\* pagination_info.get("token_expired", False)
TokenExpiredFlag(pagination) ==
    IF "token_expired" \in DOMAIN pagination THEN pagination.token_expired ELSE FALSE

\* RegistryManager.continue_repositories_pagination: one catalog request with
\* the stored token; its rows carry no is_monitored key
ContinueRepositoriesPagination(srv, token, page_size, rejected, status) ==
    LET resp        == ServerCatalog(srv, page_size, token)
        status_code == IF rejected THEN status ELSE resp.status
        page_repos  == resp.repositories
        new_token   == IF resp.hasNext THEN ExtractNextPageToken(resp) ELSE 0
    IN  IF status_code # 200
        THEN [raised       |-> FALSE,
              repositories |-> <<>>,
              pagination   |-> [method          |-> "failed",
                                next_page_token |-> 0,
                                has_more        |-> FALSE,
                                token_expired   |-> status_code \in {400, 401}],
              enriched     |-> 0,
              tag_requests |-> 0]
        ELSE [raised       |-> ~resp.json \/ CatalogTagsRaise(page_repos, srv.tags),
              repositories |-> SortByName(CatalogEntries(page_repos, srv.tags), FALSE),
              pagination   |-> [method          |-> "link_header_continuation",
                                next_page_token |-> new_token,
                                has_more        |-> new_token # 0],
              enriched     |-> Len(page_repos),
              tag_requests |-> CatalogTagsRequests(page_repos, srv.tags)]

\* the registry lists a repository that repository_data does not hold
Remaining(data) == \E n \in SeqRange(Catalog(srvN)) : n \notin Names(data)

\* load_real_repositories on a screen whose rows are data: the worker ends
\* with the exception when get_repositories raises
\* what load_real_repositories does with the result of get_repositories
StoreLoaded(data, op, result) ==
    /\ all_repositories_loaded' = (~result.raised /\ ~result.pagination.has_more)
    /\ phase' = IF result.raised THEN "crashed" ELSE "ready"
    /\ next_page_token' =
          IF result.raised THEN next_page_token
          ELSE result.pagination.next_page_token
    /\ pagination_method' =
          IF result.raised THEN pagination_method
          ELSE result.pagination.method
    /\ repository_data' =
          IF result.raised THEN data ELSE data \o result.repositories
    /\ tokenRejected' = FALSE
    /\ rejectStatus' = 0
    /\ lastStep' = [op        |-> op,
                    remaining |-> Remaining(data),
                    appended  |-> IF result.raised THEN 0 ELSE Len(result.repositories),
                    offset    |-> 0,
                    notice    |-> "none"]

LoadReal(data, op) ==
    \E result \in {GetRepositories(Srv, max_repos, monitored_repos, 0)} :
        StoreLoaded(data, op, result)

\* max_repos of the registry configuration (DefaultLimit also stands for a
\* configuration without the key)
SessionLimits == {1, MaxCap, DefaultLimit}

SessionCaps == {1, MaxCap, PageMax}

\* catalogs of more than one full page: two names, and a whole page and a
\* name, beyond the first page
LongCatalogs == {PageMax + 2, 2 * PageMax + 1}

\* a max_repos above the page size of one catalog request
LongLimit == PageMax + 1

\* nothing monitored, a monitored repository of the catalog, and one of the
\* catalog together with one the catalog does not list
SessionMonConfigs == {<<>>, <<1>>, <<3, 0>>}

InitSession ==
    /\ srvN \in (0..MaxCat) \cup LongCatalogs
    /\ srvCap \in SessionCaps
    /\ srvEager \in BOOLEAN
    /\ srvNextParam = TRUE
    /\ srvCatalog = "ok"
    /\ monitored_repos \in SessionMonConfigs
    /\ srvTags \in TagConfigs(monitored_repos)
    /\ max_repos \in SessionLimits \cup {LongLimit}
    \* long catalogs and limits are drawn together, for an uncapped server
    \* with nothing monitored and every tags request answered
    /\ (srvN \in LongCatalogs \/ max_repos = LongLimit) =>
          /\ srvN \in LongCatalogs /\ max_repos = LongLimit
          /\ srvCap = PageMax /\ ~srvEager
          /\ monitored_repos = <<>>
          /\ \A n \in MonPool : srvTags[n] = "ok"
    /\ ScreenInit
    /\ phase = "mounted"
    /\ tokenRejected = FALSE /\ rejectStatus = 0
    /\ lastStep = NoStep
    /\ CallIdle /\ AuthIdle /\ LogIdle /\ WorkerIdle /\ TagsIdle /\ StatusIdle /\ TokenIdle /\ RedactIdle /\ ProbeIdle /\ ConfigIdle

\* on_mount -> load_repositories -> load_real_repositories
LoadRealRepositories ==
    /\ phase = "mounted"
    /\ LoadReal(repository_data, "initial")
    /\ UNCHANGED <<max_repos, sort_reversed, serverVars, callVars, authVars, logVars,
                   workerVars, tagVars, statusVars, tokenVars, redactVars,
                   probeVars, configVars>>

\* what load_more_repositories tells the user at its end
LoadMoreNotice(result) ==
    IF result.raised THEN "none"
    ELSE IF result.repositories = <<>> THEN "all_loaded"
    ELSE "loaded_more"

\* what load_more_repositories does with the result of the branch it took
StoreMore(by_link, expired, result) ==
    LET current_count == Len(repository_data)
        new_repos     == result.repositories
    IN  /\ lastStep' =
              [op        |-> IF ~by_link THEN "offset"
                             ELSE IF expired THEN "fallback" ELSE "continuation",
               remaining |-> Remaining(repository_data),
               appended  |-> IF result.raised THEN 0 ELSE Len(new_repos),
               offset    |-> IF by_link /\ ~expired THEN -1 ELSE current_count,
               notice    |-> LoadMoreNotice(result)]
        /\ pagination_method' = IF expired THEN FallbackMethod ELSE pagination_method
        /\ IF result.raised
           THEN /\ phase' = "crashed"
                /\ next_page_token' = IF expired THEN 0 ELSE next_page_token
                /\ UNCHANGED <<repository_data, all_repositories_loaded,
                               tokenRejected, rejectStatus>>
           ELSE /\ phase' = "ready"
                /\ next_page_token' = result.pagination.next_page_token
                /\ all_repositories_loaded' =
                      (~result.pagination.has_more \/ new_repos = <<>>)
                /\ repository_data' = repository_data \o new_repos
                /\ tokenRejected' = FALSE
                /\ rejectStatus' = 0

\* load_more_repositories, started by action_load_more or by a row highlight
\* near the bottom while not everything is loaded
LoadMoreRepositories ==
    /\ phase = "ready"
    /\ ~all_repositories_loaded
    /\ Len(repository_data) < MaxRows \/ Len(repository_data) < srvN
    /\ \E cont \in {ContinueRepositoriesPagination(Srv, next_page_token, BatchSize,
                                                    tokenRejected, rejectStatus)} :
          LET by_link == next_page_token # 0 /\ pagination_method = "link_header"
              expired == by_link /\ ~cont.raised /\ TokenExpiredFlag(cont.pagination)
          IN  \E result \in {IF by_link /\ ~expired
                              THEN cont
                              ELSE GetRepositories(Srv, BatchSize, monitored_repos,
                                                   Len(repository_data))} :
                 StoreMore(by_link, expired, result)
    /\ UNCHANGED <<max_repos, sort_reversed, serverVars, callVars, authVars, logVars,
                   workerVars, tagVars, statusVars, tokenVars, redactVars,
                   probeVars, configVars>>

\* action_reverse_sort
ActionReverseSort ==
    /\ phase = "ready"
    /\ sort_reversed' = ~sort_reversed
    /\ LET monitored == SelectSeq(repository_data, LAMBDA e : e.is_monitored)
           catalog   == SelectSeq(repository_data, LAMBDA e : ~e.is_monitored)
       IN  repository_data' = SortByName(monitored, sort_reversed')
                              \o SortByName(catalog, sort_reversed')
    /\ lastStep' = [NoStep EXCEPT !.op = "sort"]
    /\ UNCHANGED <<max_repos, all_repositories_loaded, next_page_token,
                   pagination_method, phase, tokenRejected, rejectStatus,
                   serverVars, callVars, authVars, logVars, workerVars,
                   tagVars, statusVars, tokenVars, redactVars, probeVars,
                   configVars>>

\* action_refresh: clears the rows and loads again
ActionRefresh ==
    /\ phase = "ready"
    /\ LoadReal(<<>>, "refresh")
    /\ UNCHANGED <<max_repos, sort_reversed, serverVars, callVars, authVars, logVars,
                   workerVars, tagVars, statusVars, tokenVars, redactVars,
                   probeVars, configVars>>

\* the catalog endpoint of the registry stops answering properly while the
\* listing is still incomplete
CatalogOutage ==
    /\ phase = "ready"
    /\ ~all_repositories_loaded
    /\ srvCatalog = "ok"
    /\ srvCatalog' \in CatalogOutcomes \ {"ok"}
    /\ lastStep' = [NoStep EXCEPT !.op = "outage"]
    /\ UNCHANGED <<srvN, srvCap, srvEager, srvNextParam, srvTags, monitored_repos,
                   max_repos, repository_data, all_repositories_loaded,
                   next_page_token, pagination_method, sort_reversed, phase,
                   tokenRejected, rejectStatus, callVars, authVars, logVars,
                   workerVars, tagVars, statusVars, tokenVars, redactVars,
                   probeVars, configVars>>

\* the registry stops accepting (or serving) the stored continuation token
ExpireToken ==
    /\ phase = "ready"
    /\ ~all_repositories_loaded
    /\ next_page_token # 0 /\ pagination_method = "link_header"
    /\ ~tokenRejected
    /\ tokenRejected' = TRUE
    /\ rejectStatus' \in RejectStatuses
    /\ lastStep' = [NoStep EXCEPT !.op = "expire"]
    /\ UNCHANGED <<max_repos, repository_data, all_repositories_loaded,
                   next_page_token, pagination_method, sort_reversed, phase,
                   serverVars, callVars, authVars, logVars, workerVars,
                   tagVars, statusVars, tokenVars, redactVars, probeVars,
                   configVars>>

Next ==
    \/ LoadRealRepositories
    \/ LoadMoreRepositories
    \/ ActionReverseSort
    \/ ActionRefresh
    \/ ExpireToken
    \/ CatalogOutage

Spec == InitSession /\ [][Next]_vars

\* every tags request of the registry is answered with a usable body or a
\* status (a monitored repository may be missing)
WellBehaved == \A n \in MonPool : srvTags[n] # "bad"

\* a session on a stable catalog in which load-more keeps being triggered:
\* on_mount starts the initial load, every trigger (action_load_more, a row
\* highlight near the bottom) starts load_more_repositories, and the
\* registry may stop accepting the stored token
NextFinish ==
    \/ LoadRealRepositories
    \/ LoadMoreRepositories
    \/ ExpireToken

InitFinish == InitSession /\ srvN <= MaxCat /\ WellBehaved

SpecFinish ==
    /\ InitFinish
    /\ [][NextFinish]_vars
    /\ WF_vars(LoadRealRepositories)
    /\ WF_vars(LoadMoreRepositories)

----------------------------------------------------------------------------
(* Claims about the listing session (Spec)                                 *)

\* C4: when the continuation request made with the stored token answers 400
\* or 401, the load-more step does not end in an error, leaves
\* pagination_method at the offset-fallback tag, no longer holds the rejected
\* token, has retried with an offset-based get_repositories call, and has
\* appended at least one row whenever the registry listed a repository that
\* was not loaded yet.
C4_TokenExpiryFallback ==
    (lastStep.op = "fallback" /\ srvCatalog = "ok") =>
        /\ phase = "ready"
        /\ pagination_method = FallbackMethod
        /\ ~(tokenRejected /\ next_page_token # 0)
        /\ lastStep.offset >= 0
        /\ (lastStep.remaining => lastStep.appended > 0)

\* C6: at every point of a listing session every monitored row of
\* repository_data precedes every catalog row, and no configured monitored
\* repository name is on more than one row.
C6_MonitoredFirstUnique ==
    phase # "mounted" =>
        /\ \A i, j \in 1..Len(repository_data) :
              (repository_data[i].is_monitored /\ ~repository_data[j].is_monitored)
                  => i < j
        /\ \A k \in 1..Len(monitored_repos) :
              Cardinality(RowsNamed(repository_data, monitored_repos[k])) <= 1

\* rows of the listing that came from the catalog
CatalogLoaded(rows) ==
    Cardinality({i \in 1..Len(rows) : ~rows[i].is_monitored /\ ~rows[i].is_error})

\* C26: in the token-expiry fallback and in every offset-based load-more
\* the offset passed to get_repositories is the number of catalog
\* repositories already listed; monitored rows and error rows do not count.
C26_FallbackOffset ==
    [][lastStep'.op \in {"offset", "fallback"}
          => lastStep'.offset = CatalogLoaded(repository_data)]_vars

\* the listing of a registry without monitored repositories holds the first
\* names of the catalog, each once, and the screen either is complete or
\* holds the token of the name that follows them
PrefixListed ==
    LET k == Len(repository_data)
    IN  /\ k <= srvN
        /\ Names(repository_data) = SeqRange(SubSeq(Catalog(srvN), 1, k))
        /\ \A i, j \in 1..k :
              i < j => repository_data[i].name # repository_data[j].name
        /\ IF all_repositories_loaded THEN k = srvN ELSE next_page_token = k + 1

\* C32: on a stable catalog with proper next links and nothing monitored, an
\* initial load with any configured limit followed by link-header load-more
\* steps lists every catalog repository exactly once by the time
\* all_repositories_loaded is set: the initial load leaves a prefix of the
\* catalog and the token of the name after it, and every continuation step
\* made with an accepted token extends such a prefix to another one.
C32_SessionComplete ==
    [][(monitored_repos = <<>> /\ srvCatalog = "ok" /\ ~tokenRejected
          /\ phase' = "ready")
       => /\ lastStep'.op \in {"initial", "refresh"} => PrefixListed'
          /\ (lastStep'.op = "continuation" /\ PrefixListed) => PrefixListed']_vars

C14_FailedRetrySurfaced ==
    (lastStep.op = "fallback" /\ srvCatalog # "ok") =>
        /\ ~all_repositories_loaded
        /\ lastStep.notice # "all_loaded"

\* the rows of data that equal e
RowsEqual(data, e) == {i \in 1..Len(data) : data[i] = e}

\* rows i < j of the same group are in the order of direction rev
GroupsSorted(data, rev) ==
    \A i, j \in 1..Len(data) :
        (i < j /\ data[i].is_monitored = data[j].is_monitored) =>
            IF rev THEN LowerKey(data[i].name) >= LowerKey(data[j].name)
            ELSE LowerKey(data[i].name) <= LowerKey(data[j].name)

\* C17: a toggle of the sort direction leaves repository_data as the
\* monitored rows followed by the catalog rows, each group ordered by
\* lower-cased name in the direction now selected, with exactly the rows it
\* had before.
C17_ReverseSortKeepsGroups ==
    [][sort_reversed' # sort_reversed =>
          /\ \A i, j \in 1..Len(repository_data') :
                (repository_data'[i].is_monitored /\ ~repository_data'[j].is_monitored)
                    => i < j
          /\ GroupsSorted(repository_data', sort_reversed')
          /\ Len(repository_data') = Len(repository_data)
          /\ \A k \in 1..Len(repository_data) :
                Cardinality(RowsEqual(repository_data', repository_data[k]))
                    = Cardinality(RowsEqual(repository_data, repository_data[k]))]_vars

\* a toggle to Z-A on a screen with a monitored row and catalog rows of
\* different names
C17_Witness ==
    /\ lastStep.op = "sort"
    /\ sort_reversed
    /\ \E i, j, k \in 1..Len(repository_data) :
          /\ repository_data[i].is_monitored
          /\ ~repository_data[j].is_monitored /\ ~repository_data[k].is_monitored
          /\ LowerKey(repository_data[j].name) > LowerKey(repository_data[k].name)

----------------------------------------------------------------------------
(* SpecWorker: the fetch workers of one RepositoryScreen in real mode. The *)
(* coroutines load_real_repositories and load_more_repositories are cut at *)
(* their awaits of the RegistryManager calls; what a call returns is       *)
(* chosen freely (a result with or without rows and with or without more   *)
(* pages, a rejected continuation token, an exception).  wRequests counts  *)
(* the calls of RegistryManager.get_repositories and                       *)
(* continue_repositories_pagination.  local_runtime tells whether the      *)
(* screen's registry URL has the scheme local://.                          *)

AutoLoadRows == 10    \* if rows_from_bottom <= 10

\* the workers that are scheduled or suspended in an await
Live(ws) == {w \in DOMAIN ws : ws[w].state \in {"started", "awaiting"}}

MutCancelOthers(ws) == ws

\* run_worker(..., exclusive=True): every live worker of the screen is
\* cancelled before the new one starts
CancelOthers(ws) ==
    [w \in DOMAIN ws |->
        IF w \in Live(ws) THEN [ws[w] EXCEPT !.state = "cancelled"] ELSE ws[w]]

\* self.run_worker(coroutine, exclusive=True)
RunWorker(kind) ==
    \E w \in DOMAIN workers :
        /\ workers[w].state = "unused"
        /\ \A v \in 1..(w - 1) : workers[v].state # "unused"
        /\ workers' = [CancelOthers(workers) EXCEPT
                          ![w] = [NoWorker EXCEPT !.kind = kind, !.state = "started"]]

MutMayLoadMore(loaded) == TRUE

\* if not self.all_repositories_loaded and not self.is_filter_active()
\* (no filter is typed in this model)
MayLoadMore(loaded) == ~loaded

\* a load-more trigger: starts load_more_repositories when start holds
Trigger(kind, start) ==
    /\ wTrigger.kind # "none"
    /\ wTrigger' = [kind |-> kind, loaded |-> all_repositories_loaded,
                    started |-> start]
    /\ IF start THEN RunWorker("load_more") ELSE UNCHANGED workers
    /\ UNCHANGED <<local_runtime, wRequests, sessionVars, serverVars, callVars, authVars, logVars,
                   tagVars, statusVars, tokenVars, redactVars, probeVars,
                   configVars>>

\* on_mount -> load_repositories -> run_worker(load_real_repositories())
OnMount ==
    /\ wTrigger.kind = "none"
    /\ wTrigger' = [kind |-> "mount", loaded |-> all_repositories_loaded,
                    started |-> TRUE]
    /\ RunWorker("load_real")
    /\ UNCHANGED <<local_runtime, wRequests, sessionVars, serverVars, callVars, authVars, logVars,
                   tagVars, statusVars, tokenVars, redactVars, probeVars,
                   configVars>>

\* on_data_table_row_highlighted
OnRowHighlighted ==
    \E cursor_row \in 0..(Len(repository_data) - 1) :
        LET rows_from_bottom == Len(repository_data) - cursor_row
        IN  Trigger("highlight", MayLoadMore(all_repositories_loaded)
                                 /\ rows_from_bottom <= AutoLoadRows)

\* on_message with a Scroll message of the repository table; near stands for
\* the cooldown having passed and the table being scrolled past 90%
OnScroll ==
    \E near \in BOOLEAN :
        Trigger("scroll", MayLoadMore(all_repositories_loaded)
                          /\ near /\ Len(repository_data) > 0)

\* action_load_more
ActionLoadMore == Trigger("load_more", MayLoadMore(all_repositories_loaded))

\* action_refresh -> load_repositories -> run_worker(load_real_repositories())
WorkerRefresh ==
    /\ wTrigger.kind # "none"
    /\ wTrigger' = [kind |-> "refresh", loaded |-> all_repositories_loaded,
                    started |-> TRUE]
    /\ repository_data' = <<>>
    /\ all_repositories_loaded' = FALSE
    /\ RunWorker("load_real")
    /\ UNCHANGED <<local_runtime, wRequests, max_repos, next_page_token, pagination_method,
                   sort_reversed, phase, tokenRejected, rejectStatus, lastStep,
                   serverVars, callVars, authVars, logVars, tagVars,
                   statusVars, tokenVars, redactVars, probeVars, configVars>>

\* the worker's task runs up to its first await: load_real_repositories
\* awaits get_repositories, load_more_repositories awaits the continuation
\* call or the offset call
WorkerRun(w) ==
    /\ workers[w].state = "started"
    /\ workers' = [workers EXCEPT
          ![w].state = "awaiting",
          ![w].stage = IF workers[w].kind = "load_real"
                       THEN (IF local_runtime THEN "local" ELSE "initial")
                       ELSE IF next_page_token # 0 /\ pagination_method = "link_header"
                       THEN "continuation"
                       ELSE "offset"]
    /\ wRequests' = IF workers[w].kind = "load_real" /\ local_runtime
                     THEN wRequests
                     ELSE wRequests + 1
    /\ UNCHANGED <<local_runtime, wTrigger, sessionVars, serverVars, callVars, authVars, logVars,
                   tagVars, statusVars, tokenVars, redactVars, probeVars,
                   configVars>>

\* what the awaited call can give back.  LocalContainerClient gives rows or
\* an error (no rows) and knows no pagination; a RegistryManager call on a
\* local:// URL cannot reach a registry, every request of it ends as a
\* status 0 record and the result is empty
WorkerOutcomes(stage, local) ==
    IF stage = "local"
    THEN [kind : {"result"}, rows : 0..1, has_more : {FALSE}]
    ELSE IF local
    THEN {[kind |-> "result", rows |-> 0, has_more |-> FALSE]}
    ELSE [kind : {"result"}, rows : 0..1, has_more : BOOLEAN]
         \cup {[kind |-> "raise", rows |-> 0, has_more |-> FALSE]}
         \cup IF stage = "continuation"
              THEN {[kind |-> "expired", rows |-> 0, has_more |-> FALSE]}
              ELSE {}

\* the awaited call returns and the coroutine runs on, to its next await or
\* to its end
WorkerResume(w) ==
    /\ workers[w].state = "awaiting"
    /\ \E out \in WorkerOutcomes(workers[w].stage, local_runtime) :
        LET new_repos == [i \in 1..out.rows |-> Entry(1, "Count", FALSE, FALSE)]
            token     == IF out.has_more THEN 1 ELSE 0
        IN  IF out.kind = "raise"
            THEN /\ workers' = [workers EXCEPT ![w].state = "error"]
                 /\ UNCHANGED <<wRequests, repository_data, all_repositories_loaded,
                                next_page_token, pagination_method>>
            ELSE IF out.kind = "expired"
            THEN /\ workers' = [workers EXCEPT ![w].stage = "retry"]
                 /\ wRequests' = wRequests + 1
                 /\ next_page_token' = 0
                 /\ pagination_method' = FallbackMethod
                 /\ UNCHANGED <<repository_data, all_repositories_loaded>>
            ELSE IF workers[w].stage = "local"
            THEN /\ workers' = [workers EXCEPT ![w].state = "success",
                                               ![w].appended = out.rows]
                 /\ repository_data' = repository_data \o new_repos
                 /\ UNCHANGED <<wRequests, all_repositories_loaded,
                                next_page_token, pagination_method>>
            ELSE /\ workers' = [workers EXCEPT ![w].state = "success",
                                               ![w].appended = out.rows]
                 /\ next_page_token' = token
                 /\ pagination_method' =
                       IF workers[w].kind = "load_real"
                       THEN (IF out.has_more THEN "link_header" ELSE "complete")
                       ELSE pagination_method
                 /\ all_repositories_loaded' =
                       IF workers[w].kind = "load_real" THEN ~out.has_more
                       ELSE (~out.has_more \/ new_repos = <<>>)
                 /\ repository_data' = repository_data \o new_repos
                 /\ UNCHANGED wRequests
    /\ UNCHANGED <<local_runtime, wTrigger, max_repos, sort_reversed, phase, tokenRejected,
                   rejectStatus, lastStep, serverVars, callVars, authVars, logVars,
                   tagVars, statusVars, tokenVars, redactVars, probeVars,
                   configVars>>

InitWorker ==
    /\ ServerIdle /\ CallIdle /\ SessionIdle /\ AuthIdle /\ LogIdle /\ TagsIdle /\ StatusIdle /\ TokenIdle /\ RedactIdle /\ ProbeIdle /\ ConfigIdle
    /\ workers = [w \in 1..MaxWorkers |-> NoWorker]
    /\ wRequests = 0
    /\ wTrigger = NoTrigger
    /\ local_runtime \in BOOLEAN

NextWorker ==
    \/ OnMount
    \/ OnRowHighlighted
    \/ OnScroll
    \/ ActionLoadMore
    \/ WorkerRefresh
    \/ \E w \in DOMAIN workers : WorkerRun(w)
    \/ \E w \in DOMAIN workers : WorkerResume(w)

SpecWorker == InitWorker /\ [][NextWorker]_vars

----------------------------------------------------------------------------
(* Claims about the fetch workers (SpecWorker)                             *)

\* C15: while all_repositories_loaded is true no fetch call is issued: a row
\* highlight, a scroll message or the load-more action arriving then starts
\* nothing, and only a refresh (which resets the flag) leads to new requests.
C15_NoFetchWhenLoaded ==
    [][all_repositories_loaded => wRequests' = wRequests]_vars

\* a load-more trigger arrived while everything was loaded
C15_Witness ==
    /\ all_repositories_loaded
    /\ wTrigger.kind \in {"highlight", "scroll", "load_more"}
    /\ wTrigger.loaded
    /\ wRequests > 0

\* C22: on the RepositoryScreen of a local:// registry no event and no
\* worker calls RegistryManager.get_repositories or
\* continue_repositories_pagination.
C22_NoCoreCallForLocal == local_runtime => wRequests = 0

\* C16: at most one fetch worker of the screen is live at any time, a worker
\* that starts leaves every earlier worker cancelled or finished, and a
\* cancelled worker has appended nothing to repository_data.
C16_OneLiveWorker ==
    /\ Cardinality(Live(workers)) <= 1
    /\ \A w \in DOMAIN workers :
          workers[w].state = "started" =>
              \A v \in DOMAIN workers \ {w} : v \notin Live(workers)
    /\ \A w \in DOMAIN workers :
          workers[w].state = "cancelled" => workers[w].appended = 0

\* a worker was cancelled in its await by the start of the next one, which
\* went on to append rows
C16_Witness ==
    \E v, w \in DOMAIN workers :
        /\ workers[v].state = "cancelled" /\ workers[v].stage # "none"
        /\ workers[w].state = "success" /\ workers[w].appended > 0

\* the worker of the last reload: the first worker is the one on_mount
\* starts, every later load_real worker was started by action_refresh
LastReload(r) ==
    /\ r > 1
    /\ workers[r].kind = "load_real"
    /\ \A u \in DOMAIN workers : u > r => workers[u].kind # "load_real"

\* C34: after action_refresh no request is made with a continuation token
\* stored before the refresh: a load-more worker started after the reload
\* asks by token (and appends the page that follows it) only when the
\* reload has finished and stored the token of a fresh initial load,
\* whatever load-more triggers arrived while the reload was in flight.
C34_RefreshCleanSession ==
    \A r \in DOMAIN workers :
        LastReload(r) =>
            \A v \in DOMAIN workers :
                (v > r /\ workers[v].stage \in {"continuation", "retry"})
                   => workers[r].state = "success"

----------------------------------------------------------------------------
(* SpecProbe: the status workers of the ContainerCardCatalog screen in     *)
(* real mode.  Registries are numbered in the order the priority sort of   *)
(* load_registries lists them; the name of a registry (its URL without the *)
(* scheme) is drawn.  The status a probe brings back is the number of the  *)
(* registry it asked; 0 is the placeholder of a registry not yet checked.  *)

MaxRegs == 2      \* registries given on the command line
MaxProbes == 3    \* status workers started on the screen

\* the remote registries given on the command line, in any order
RegistryLists ==
    UNION {{r \in [1..n -> 1..n] : \A i, j \in 1..n : i # j => r[i] # r[j]}
              : n \in 1..MaxRegs}

\* the names of the registries: 1 and 2 differ only in case
RegNames == {1, 2, 3}

RegistryEntry(u, nm) == [url |-> u, name |-> nm, status |-> 0]

\* the row add_row puts into the table for an entry
TableRow(e) == [url |-> e.url, status |-> e.status]

\* for idx, registry_data in enumerate(self.registry_data): the index of the
\* first entry with the URL, 0 for None
RowIndexOf(data, u) ==
    LET found == {i \in 1..Len(data) : data[i].url = u}
    IN  IF found = {} THEN 0 ELSE CHOOSE i \in found : \A j \in found : i <= j

LiveProbes(ps) == {p \in DOMAIN ps : ps[p].state \in {"started", "awaiting"}}

\* self.run_worker(coroutine, exclusive=exclusive): an exclusive start
\* cancels every live worker of the screen
StartProbe(kind, u, exclusive) ==
    \E p \in DOMAIN probes :
        /\ probes[p].state = "unused"
        /\ \A q \in 1..(p - 1) : probes[q].state # "unused"
        /\ probes' =
              [q \in DOMAIN probes |->
                 IF q = p
                 THEN [NoProbe EXCEPT !.kind = kind, !.state = "started", !.url = u]
                 ELSE IF exclusive /\ q \in LiveProbes(probes)
                 THEN [probes[q] EXCEPT !.state = "cancelled"]
                 ELSE probes[q]]

\* on_mount: load_registries fills the list in priority order, then the
\* status check of every registry starts
AppOnMount ==
    /\ registry_data = <<>>
    /\ \E names \in [1..Len(registries) -> RegNames] :
          registry_data' = [i \in 1..Len(registries) |-> RegistryEntry(i, names[i])]
    /\ registry_table' = [i \in 1..Len(registries) |-> TableRow(registry_data'[i])]
    /\ StartProbe("check_all", 0, TRUE)
    /\ UNCHANGED <<registries, app_sort_reversed>>
    /\ UNCHANGED <<serverVars, callVars, sessionVars, authVars, logVars,
                   workerVars, tagVars, statusVars, tokenVars, redactVars,
                   configVars>>

\* ContainerCardCatalog.action_refresh in real mode
AppActionRefresh ==
    /\ registry_data # <<>>
    /\ StartProbe("check_all", 0, TRUE)
    /\ UNCHANGED <<registries, registry_data, registry_table, app_sort_reversed>>
    /\ UNCHANGED <<serverVars, callVars, sessionVars, authVars, logVars,
                   workerVars, tagVars, statusVars, tokenVars, redactVars,
                   configVars>>

\* the end of on_registry_config_modal_config_saved in real mode:
\* run_worker(self._refresh_single_registry(registry_url), exclusive=False)
ConfigSavedRefresh ==
    /\ registry_data # <<>>
    /\ \E u \in 1..Len(registries) : StartProbe("single", u, FALSE)
    /\ UNCHANGED <<registries, registry_data, registry_table, app_sort_reversed>>
    /\ UNCHANGED <<serverVars, callVars, sessionVars, authVars, logVars,
                   workerVars, tagVars, statusVars, tokenVars, redactVars,
                   configVars>>

\* a worker that looks up the row of u and then awaits the status check of u
AwaitStatus(pr, u, position) ==
    [pr EXCEPT !.state = "awaiting", !.url = u, !.pos = position,
               !.row_index = RowIndexOf(registry_data, u)]

\* the worker's task runs up to its first await
ProbeRun(p) ==
    /\ probes[p].state = "started"
    /\ probes' = [probes EXCEPT ![p] =
          IF probes[p].kind = "check_all"
          THEN AwaitStatus(probes[p], registries[1], 1)
          ELSE AwaitStatus(probes[p], probes[p].url, 0)]
    /\ UNCHANGED <<registries, registry_data, registry_table, app_sort_reversed>>
    /\ UNCHANGED <<serverVars, callVars, sessionVars, authVars, logVars,
                   workerVars, tagVars, statusVars, tokenVars, redactVars,
                   configVars>>

\* the status check returns: the entry and the table row at the index looked
\* up before the await are updated; check_real_registries goes on to the
\* next registry and awaits its check
ProbeReturn(p) ==
    /\ probes[p].state = "awaiting"
    /\ registry_data' =
          [registry_data EXCEPT ![probes[p].row_index].status = probes[p].url]
    /\ registry_table' =
          [registry_table EXCEPT ![probes[p].row_index].status = probes[p].url]
    /\ probes' = [probes EXCEPT ![p] =
          IF probes[p].kind = "check_all" /\ probes[p].pos < Len(registries)
          THEN [AwaitStatus(probes[p], registries[probes[p].pos + 1],
                            probes[p].pos + 1)
                   EXCEPT !.row_index =
                             RowIndexOf(registry_data', registries[probes[p].pos + 1])]
          ELSE [probes[p] EXCEPT !.state = "done"]]
    /\ UNCHANGED <<registries, app_sort_reversed>>
    /\ UNCHANGED <<serverVars, callVars, sessionVars, authVars, logVars,
                   workerVars, tagVars, statusVars, tokenVars, redactVars,
                   configVars>>

\* ContainerCardCatalog.action_reverse_sort: the entries are sorted in place
\* and the table is rebuilt from them
AppActionReverseSort ==
    /\ registry_data # <<>>
    /\ app_sort_reversed' = ~app_sort_reversed
    /\ registry_data' = SortByName(registry_data, app_sort_reversed')
    /\ registry_table' = [i \in 1..Len(registry_data') |-> TableRow(registry_data'[i])]
    /\ UNCHANGED <<registries, probes>>
    /\ UNCHANGED <<serverVars, callVars, sessionVars, authVars, logVars,
                   workerVars, tagVars, statusVars, tokenVars, redactVars,
                   configVars>>

InitProbe ==
    /\ ServerIdle /\ CallIdle /\ SessionIdle /\ AuthIdle /\ LogIdle /\ WorkerIdle /\ TagsIdle /\ StatusIdle /\ TokenIdle /\ RedactIdle /\ ConfigIdle
    /\ registries \in RegistryLists
    /\ registry_data = <<>>
    /\ registry_table = <<>>
    /\ app_sort_reversed = FALSE
    /\ probes = [p \in 1..MaxProbes |-> NoProbe]

NextProbe ==
    \/ AppOnMount
    \/ AppActionRefresh
    \/ ConfigSavedRefresh
    \/ AppActionReverseSort
    \/ \E p \in DOMAIN probes : ProbeRun(p)
    \/ \E p \in DOMAIN probes : ProbeReturn(p)

SpecProbe == InitProbe /\ [][NextProbe]_vars

----------------------------------------------------------------------------
(* SpecTags: the recent tags of one repository, computed from one tags     *)
(* answer                                                                  *)

\* the manifest entries a tag can have: none, one without times, one with a
\* creation time only, and two with both times
ManifestChoices ==
    {NoManifest,
     [present |-> TRUE, timeUploadedMs |-> 0, timeCreatedMs |-> 0],
     [present |-> TRUE, timeUploadedMs |-> 0, timeCreatedMs |-> 1],
     [present |-> TRUE, timeUploadedMs |-> 1, timeCreatedMs |-> 2],
     [present |-> TRUE, timeUploadedMs |-> 2, timeCreatedMs |-> 1]}

\* lists of distinct tags
TagLists ==
    {s \in UNION {[1..n -> TagPool] : n \in 0..MaxTags} :
        \A i, j \in 1..Len(s) : i # j => s[i] # s[j]}

InitTags ==
    /\ all_tags \in TagLists
    /\ manifest_metadata \in [TagPool -> ManifestChoices]
    /\ recent_tags = <<>>
    /\ tagsDone = FALSE
    /\ ServerIdle /\ CallIdle /\ SessionIdle /\ AuthIdle /\ LogIdle /\ WorkerIdle /\ StatusIdle /\ TokenIdle /\ RedactIdle /\ ProbeIdle /\ ConfigIdle

\* the tags branch of get_repositories for one repository
ComputeRecentTags ==
    /\ ~tagsDone
    /\ tagsDone' = TRUE
    /\ recent_tags' = RecentTags(all_tags, manifest_metadata)
    /\ UNCHANGED <<all_tags, manifest_metadata, serverVars, callVars, sessionVars,
                   authVars, logVars, workerVars, statusVars, tokenVars,
                   redactVars, probeVars, configVars>>

NextTags == ComputeRecentTags

SpecTags == InitTags /\ [][NextTags]_vars

----------------------------------------------------------------------------
(* Claims about the recent tags (SpecTags)                                 *)

\* C18: recent_tags holds at most 3 tags, never the tag "latest", and is
\* ordered newest first by manifest timestamp (upload time preferred over
\* creation time) with ties in case-insensitive name order; without manifest
\* metadata it is in case-insensitive alphabetical order.
C18_RecentTags ==
    tagsDone =>
        /\ Len(recent_tags) <= RecentMax
        /\ \A i \in 1..Len(recent_tags) : recent_tags[i] # Latest
        /\ \A i, j \in 1..Len(recent_tags) :
              i < j => ~TagKeyLess(recent_tags[j], recent_tags[i],
                                   TagTimestamps(manifest_metadata))

----------------------------------------------------------------------------
(* SpecStatus: one check_registry_status call                              *)

\* status codes of a response record: 0 is a request that failed in transport
ProbeStatuses == {0, 200, 401, 500}

\* the classification at the end of check_registry_status; connection_status
\* "Error" stands for f"Error {version_response['status_code']}" with the
\* number in code
ClassifyStatus(version, catalog, test, config) ==
    LET monitored_repo_accessible == config.monitored /\ test = 200
        has_auth == config.username \/ config.password
    IN  IF version = 200 /\ catalog = 200
        THEN [status |-> "ok", connection_status |-> "Connected", code |-> -1]
        ELSE IF catalog = 200
        THEN [status |-> "partial", connection_status |-> "Partial (auth needed)",
              code |-> -1]
        ELSE IF version = 200
        THEN [status |-> "partial", connection_status |-> "Partial (catalog restricted)",
              code |-> -1]
        ELSE IF monitored_repo_accessible
        THEN [status |-> "partial", connection_status |-> "Monitored repos accessible",
              code |-> -1]
        ELSE IF has_auth /\ (version = 401 \/ catalog = 401)
        THEN [status |-> "partial", connection_status |-> "Auth configured",
              code |-> -1]
        ELSE [status |-> "error", connection_status |-> "Error", code |-> version]

MutRepoCount(catalog, json, repos, mon, test) ==
    IF catalog = 200 /\ json
    THEN [known |-> TRUE, total |-> Len(repos) + Len(mon),
          monitored |-> IF mon # <<>> THEN Len(mon) ELSE -1]
    ELSE UnknownCount

\* "Determine repo count" in check_registry_status
RepoCount(catalog, json, repos, mon, test) ==
    IF catalog = 200 /\ json
    THEN LET catalog_count == Len(repos)
             monitored_not_in_catalog ==
                 SelectSeq(mon, LAMBDA repo : repo \notin SeqRange(repos))
         IN  IF mon # <<>>
             THEN [known |-> TRUE,
                   total |-> catalog_count + Len(monitored_not_in_catalog),
                   monitored |-> Len(mon)]
             ELSE [known |-> TRUE, total |-> catalog_count, monitored |-> -1]
    ELSE IF mon # <<>> /\ test = 200
    THEN [known |-> TRUE, total |-> Len(mon), monitored |-> Len(mon)]
    ELSE UnknownCount

\* the registry's catalog and the configured monitored list are drawn; when
\* the catalog request answers 200 its body is the first catalog page or
\* (srvCatalog = "bad") not JSON
InitStatus ==
    /\ StatusIdle
    /\ srvN \in 0..MaxCat
    /\ srvCap = PageMax /\ srvEager = FALSE /\ srvNextParam = TRUE
    /\ srvCatalog \in {"ok", "bad"}
    /\ monitored_repos \in MonConfigs
    /\ srvTags = [n \in MonPool |-> "ok"]
    /\ CallIdle /\ SessionIdle /\ AuthIdle /\ LogIdle /\ WorkerIdle /\ TokenIdle /\ RedactIdle /\ ProbeIdle /\ ConfigIdle
    /\ TagsIdle

\* check_registry_status: the version request, the catalog request, the tags
\* request for the first monitored repository when one is configured, then
\* the classification
CheckRegistryStatus ==
    /\ registry_status = NoStatus
    /\ \E version \in ProbeStatuses, catalog \in ProbeStatuses,
          config \in [username : BOOLEAN, password : BOOLEAN,
                      monitored : {monitored_repos # <<>>}] :
          \E test \in IF config.monitored THEN ProbeStatuses ELSE {-1} :
              LET page == ServerCatalog(Srv, srvCap, 0)
              IN  /\ version_response' = version
                  /\ catalog_response' = catalog
                  /\ test_response' = test
                  /\ registry_config' = config
                  /\ registry_status' = ClassifyStatus(version, catalog, test, config)
                  /\ repo_count' = RepoCount(catalog, page.json, page.repositories,
                                             monitored_repos, test)
    /\ UNCHANGED <<serverVars, callVars, sessionVars, authVars, logVars, workerVars,
                   tagVars, tokenVars, redactVars, probeVars, configVars>>

NextStatus == CheckRegistryStatus

SpecStatus == InitStatus /\ [][NextStatus]_vars

----------------------------------------------------------------------------
(* Claims about the status classification (SpecStatus)                     *)

\* credentials are configured for the registry
HasAuth == registry_config.username \/ registry_config.password

\* C19: the status follows the priority: version and catalog both 200 is
\* Connected; exactly one of them 200 is a partial status whose text tells
\* which endpoint is restricted; neither 200 but the tags request for the
\* first monitored repository 200 is "Monitored repos accessible"; and when
\* no rule of the classification applies (the remaining rule being both
\* endpoints 401 with credentials configured) the status is an error that
\* carries the failing status code.
C19_StatusPriority ==
    registry_status # NoStatus =>
        LET v == version_response
            c == catalog_response
        IN  /\ (v = 200 /\ c = 200) =>
                  registry_status.connection_status = "Connected"
            /\ (v # 200 /\ c = 200) =>
                  registry_status.connection_status = "Partial (auth needed)"
            /\ (v = 200 /\ c # 200) =>
                  registry_status.connection_status = "Partial (catalog restricted)"
            /\ (v # 200 /\ c # 200 /\ test_response = 200) =>
                  registry_status.connection_status = "Monitored repos accessible"
            /\ (/\ v # 200 /\ c # 200 /\ test_response # 200
                /\ ~(HasAuth /\ v = 401 /\ c = 401)) =>
                  /\ registry_status.status = "error"
                  /\ registry_status.code \in {v, c}

\* C20: "Auth configured" is reported only when the version endpoint and
\* the catalog endpoint both answered 401 and credentials are configured;
\* one 401 together with another failure of the other endpoint (and no
\* monitored repository accessible) gives the error status.
C20_AuthConfiguredOnlyBoth401 ==
    registry_status # NoStatus =>
        /\ registry_status.connection_status = "Auth configured" =>
              (HasAuth /\ version_response = 401 /\ catalog_response = 401)
        /\ (/\ test_response # 200
            /\ {version_response, catalog_response} \in {{401, 0}, {401, 500}}) =>
              registry_status.status = "error"

\* the catalog request of the status check answered 200 with a JSON body
CatalogFetched ==
    registry_status # NoStatus /\ catalog_response = 200 /\ srvCatalog = "ok"

\* C21: with a successful catalog fetch and monitored repositories
\* configured, the leading number of repo_count is the number of distinct
\* repositories among the catalog entries and the monitored names (a
\* monitored repository of the catalog counts once) and the number in
\* parentheses is the number of configured monitored repositories.
C21_RepoCount ==
    (CatalogFetched /\ monitored_repos # <<>>) =>
        LET repos == ServerCatalog(Srv, srvCap, 0).repositories
        IN  /\ repo_count.known
            /\ repo_count.total =
                  Cardinality(SeqRange(repos) \cup SeqRange(monitored_repos))
            /\ repo_count.total =
                  Len(repos)
                  + Cardinality(SeqRange(monitored_repos) \ SeqRange(repos))
            /\ repo_count.monitored = Len(monitored_repos)

\* a monitored repository of the catalog and one outside it
C21_Witness ==
    /\ CatalogFetched
    /\ \E a, b \in SeqRange(monitored_repos) :
          LET repos == ServerCatalog(Srv, srvCap, 0).repositories
          IN  a \in SeqRange(repos) /\ b \notin SeqRange(repos)
    /\ repo_count.total > 0

----------------------------------------------------------------------------
(* SpecAuth: one RegistryClient; _make_request is cut at its awaits        *)

MaxTime == 3      \* the clock runs from 0 to MaxTime
MaxExpiry == 2    \* a numeric expires_in of a token answer is 0..MaxExpiry

DefaultTokenLifetime == 300   \* self.token_expires_at = time.time() + 300

AuthTypes == {"none", "basic", "bearer", "token"}

\* token_data.get('expires_in') of a 200 token answer that holds a token
ExpiresInAnswers ==
    {NoExpiresIn, [given |-> TRUE, numeric |-> FALSE, value |-> 0]}
    \cup {[given |-> TRUE, numeric |-> TRUE, value |-> n] : n \in 0..MaxExpiry}

\* int(expires_in) raises
ExpiryRaises(e) == e.given /\ ~e.numeric

\* self.token_expires_at after the token was cached: "if expires_in" is
\* false for an absent value and for 0; the issued_at branch and the last
\* branch set the same default; when int() raises the assignment is not
\* reached and the old value stays
TokenExpiresAt(e, old, t) ==
    IF e.given /\ (~e.numeric \/ e.value # 0)
    THEN IF e.numeric THEN t + e.value ELSE old
    ELSE t + DefaultTokenLifetime

\* status codes of an endpoint answer; 0 stands for a transport exception
Statuses == {200, 401, 500}

\* time.time() >= self.token_expires_at, for a token with an expiry
MutTokenExpired(expires_at, t) == expires_at # 0 /\ t > expires_at

TokenExpired(expires_at, t) == expires_at # 0 /\ t >= expires_at

\* _get_basic_auth_header: "basic" is Basic base64(username:password)
GetBasicAuthHeader(user, pass) == IF ~user \/ ~pass THEN "none" ELSE "basic"

MutGetBearerAuthHeader(type, user, pass) ==
    IF type = "bearer" /\ pass THEN "bearer_password" ELSE "none"

\* _get_bearer_auth_header: "bearer_credentials" is Bearer
\* base64(username:password), "bearer_password" is Bearer <password>
GetBearerAuthHeader(type, user, pass) ==
    IF type = "bearer" /\ pass
    THEN IF user /\ pass THEN "bearer_credentials" ELSE "bearer_password"
    ELSE "none"

\* _get_auth_headers: the kind of Authorization header ("none" is {}) and
\* the token cache it leaves behind
GetAuthHeaders(type, user, pass, token, expires_at, t) ==
    IF type = "basic"
    THEN [header |-> GetBasicAuthHeader(user, pass), token |-> token]
    ELSE IF type = "bearer"
    THEN [header |-> GetBearerAuthHeader(type, user, pass), token |-> token]
    ELSE IF type = "token" /\ token # 0
    THEN IF TokenExpired(expires_at, t)
         THEN [header |-> "none", token |-> 0]
         ELSE [header |-> "bearer_token", token |-> token]
    ELSE [header |-> "none", token |-> token]

\* if self.username and self.password and self.auth_type != "basic"
MutUpgradeAllowed(user, pass, type) == user /\ pass

UpgradeAllowed(user, pass, type) == user /\ pass /\ type # "basic"

\* the record of a received response; the caller hands what _make_request
\* returns to add_api_call
ResponseRecord(r, status) ==
    [r EXCEPT !.returned = status, !.error = FALSE, !.logged = 1]

\* the record of the except branch: status_code 0, size_bytes 0, "error"
MutFailureRecord(r, where) ==
    [r EXCEPT !.exc = where, !.returned = r.first, !.error = FALSE, !.logged = 1]

FailureRecord(r, where) ==
    [r EXCEPT !.exc = where, !.returned = 0, !.error = TRUE, !.logged = 1]

InitAuth ==
    /\ auth_type \in AuthTypes
    /\ username \in BOOLEAN
    /\ password \in BOOLEAN
    /\ ClientInit
    /\ now = 0 /\ pc = "idle" /\ req = NoReq /\ hdr = NoHdr
    /\ sentExpired = FALSE
    /\ ServerIdle /\ CallIdle /\ SessionIdle /\ LogIdle /\ WorkerIdle /\ TagsIdle /\ StatusIdle /\ TokenIdle /\ RedactIdle /\ ProbeIdle /\ ConfigIdle

\* _make_request up to the first await: the headers are computed and the
\* endpoint GET is issued
MakeRequest ==
    /\ pc = "idle"
    /\ LET h == GetAuthHeaders(auth_type, username, password, cached_token,
                               token_expires_at, now)
       IN  /\ cached_token' = h.token
           /\ hdr' = [called         |-> TRUE,
                      mode           |-> auth_type,
                      token_before   |-> cached_token,
                      expires_before |-> token_expires_at,
                      at             |-> now,
                      header         |-> h.header,
                      token_after    |-> h.token]
           /\ sentExpired' =
                 (sentExpired \/ (/\ h.header = "bearer_token"
                                  /\ token_expires_at # 0
                                  /\ now >= token_expires_at))
    /\ req' = [NoReq EXCEPT !.gets = 1, !.sent = 1]
    /\ pc' = "get1"
    /\ UNCHANGED <<auth_type, username, password, token_expires_at, auth_realm,
                   auth_service, now, serverVars, callVars, sessionVars, logVars,
                   workerVars, tagVars, statusVars, tokenVars, redactVars,
                   probeVars, configVars>>

\* the answer to the first GET: returned as it is, or (401 with credentials)
\* _get_registry_token starts with the challenge probe or the token request
FirstResponse ==
    /\ pc = "get1"
    /\ \E st \in Statuses \cup {0} :
          IF st = 0
          THEN /\ req' = FailureRecord([req EXCEPT !.first = st], "get1")
               /\ pc' = "idle"
          ELSE IF st = 401 /\ UpgradeAllowed(username, password, auth_type)
          THEN /\ req' = [req EXCEPT !.first = st, !.sent = @ + 1]
               /\ pc' = IF ~auth_realm \/ ~auth_service THEN "probe" ELSE "post"
          ELSE /\ req' = ResponseRecord([req EXCEPT !.first = st], st)
               /\ pc' = "idle"
    /\ UNCHANGED <<auth_type, username, password, cached_token, token_expires_at,
                   auth_realm, auth_service, now, hdr, sentExpired,
                   serverVars, callVars, sessionVars, logVars, workerVars,
                   tagVars, statusVars, tokenVars, redactVars, probeVars,
                   configVars>>

\* the answer to GET /v2/ inside _get_registry_token: "exc" is an exception,
\* "other" an answer that is not a 401 with a WWW-Authenticate header
ProbeResponse ==
    /\ pc = "probe"
    /\ \/ /\ pc' = "idle"
          /\ req' = ResponseRecord([req EXCEPT !.exc = "probe"], req.first)
          /\ UNCHANGED <<auth_realm, auth_service>>
       \/ /\ UNCHANGED <<auth_realm, auth_service>>
          /\ IF auth_realm
             THEN pc' = "post" /\ req' = [req EXCEPT !.sent = @ + 1]
             ELSE pc' = "idle" /\ req' = ResponseRecord(req, req.first)
       \/ \E realm \in BOOLEAN, service \in BOOLEAN :
             /\ auth_realm' = realm
             /\ auth_service' = service
             /\ IF realm
                THEN pc' = "post" /\ req' = [req EXCEPT !.sent = @ + 1]
                ELSE pc' = "idle" /\ req' = ResponseRecord(req, req.first)
    /\ UNCHANGED <<auth_type, username, password, cached_token, token_expires_at,
                   now, hdr, sentExpired, serverVars, callVars, sessionVars, logVars,
                   workerVars, tagVars, statusVars, tokenVars, redactVars,
                   probeVars, configVars>>

\* the answer to the token request: without a token (an exception, a non-200
\* answer, a body without one) the first response is returned; with one it is cached and the endpoint GET is issued again
PostResponse ==
    /\ pc = "post"
    /\ \/ /\ pc' = "idle"
          /\ \E raised \in BOOLEAN :
                req' = ResponseRecord(
                          [req EXCEPT !.exc = IF raised THEN "post" ELSE "none"],
                          req.first)
          /\ UNCHANGED <<cached_token, token_expires_at, sentExpired>>
       \/ \E e \in ExpiresInAnswers :
             /\ cached_token' = 1
             /\ token_expires_at' = TokenExpiresAt(e, token_expires_at, now)
             /\ IF ExpiryRaises(e)
                THEN /\ req' = ResponseRecord([req EXCEPT !.exc = "post"], req.first)
                     /\ pc' = "idle"
                     /\ UNCHANGED sentExpired
                ELSE /\ req' = [req EXCEPT !.gets = 2, !.sent = @ + 1, !.token = TRUE]
                     /\ sentExpired' = (sentExpired \/ now >= token_expires_at')
                     /\ pc' = "get2"
    /\ UNCHANGED <<auth_type, username, password, auth_realm, auth_service, now,
                   hdr, serverVars, callVars, sessionVars, logVars,
                   workerVars, tagVars, statusVars, tokenVars, redactVars,
                   probeVars, configVars>>

\* the answer to the second GET is returned whatever it is
SecondResponse ==
    /\ pc = "get2"
    /\ \E st \in Statuses \cup {0} :
          req' = IF st = 0
                 THEN FailureRecord([req EXCEPT !.second = st], "get2")
                 ELSE ResponseRecord([req EXCEPT !.second = st], st)
    /\ pc' = "idle"
    /\ UNCHANGED <<auth_type, username, password, cached_token, token_expires_at,
                   auth_realm, auth_service, now, hdr, sentExpired,
                   serverVars, callVars, sessionVars, logVars, workerVars,
                   tagVars, statusVars, tokenVars, redactVars, probeVars,
                   configVars>>

\* time passes
Tick ==
    /\ now < MaxTime
    /\ now' = now + 1
    /\ UNCHANGED <<auth_type, username, password, cached_token, token_expires_at,
                   auth_realm, auth_service, pc, req, hdr, sentExpired,
                   serverVars, callVars, sessionVars, logVars, workerVars,
                   tagVars, statusVars, tokenVars, redactVars, probeVars,
                   configVars>>

NextAuth ==
    \/ MakeRequest
    \/ FirstResponse
    \/ ProbeResponse
    \/ PostResponse
    \/ SecondResponse
    \/ Tick

SpecAuth == InitAuth /\ [][NextAuth]_vars

----------------------------------------------------------------------------
(* SpecToken: _get_registry_token on one client, cut at its awaits; the    *)
(* client keeps realm, service and the token cache between calls           *)

MutRealmKnown(realm) == TRUE

\* if not self.auth_realm: return None
RealmKnown(realm) == realm

InitToken ==
    /\ username \in BOOLEAN
    /\ password \in BOOLEAN
    /\ auth_type = "token"
    /\ ClientInit
    /\ now = 0 /\ pc = "idle" /\ req = NoReq /\ hdr = NoHdr
    /\ sentExpired = FALSE
    /\ tok = NoTok
    /\ ServerIdle /\ CallIdle /\ SessionIdle /\ LogIdle /\ WorkerIdle /\ TagsIdle /\ RedactIdle /\ ProbeIdle /\ ConfigIdle
    /\ StatusIdle

\* _get_registry_token up to its first await (or its first return)
GetRegistryToken ==
    /\ pc = "idle"
    /\ IF ~username \/ ~password
       THEN /\ tok' = [NoTok EXCEPT !.result = "None"]
            /\ pc' = "idle"
       ELSE IF ~auth_realm \/ ~auth_service
       THEN /\ tok' = [NoTok EXCEPT !.result = "pending", !.probes = 1]
            /\ pc' = "probe"
       ELSE IF ~RealmKnown(auth_realm)
       THEN /\ tok' = [NoTok EXCEPT !.result = "None"]
            /\ pc' = "idle"
       ELSE /\ tok' = [NoTok EXCEPT !.result = "pending", !.posts = 1,
                                    !.realm = auth_realm]
            /\ pc' = "post"
    /\ UNCHANGED <<auth_type, username, password, cached_token, token_expires_at,
                   auth_realm, auth_service, now, req, hdr, sentExpired,
                   serverVars, callVars, sessionVars, logVars, workerVars,
                   tagVars, statusVars, redactVars, probeVars, configVars>>

\* the answer to GET /v2/: an exception; an answer that is not a 401 with a
\* WWW-Authenticate header (realm and service stay); a challenge, of which
\* realm and service are taken whether it names them or not
TokenProbeResponse ==
    /\ pc = "probe" /\ tok.result = "pending"
    /\ \/ /\ tok' = [tok EXCEPT !.result = "None", !.exc = "probe"]
          /\ pc' = "idle"
          /\ UNCHANGED <<auth_realm, auth_service>>
       \/ \E challenge \in BOOLEAN, realm \in BOOLEAN, service \in BOOLEAN :
             /\ auth_realm' = IF challenge THEN realm ELSE auth_realm
             /\ auth_service' = IF challenge THEN service ELSE auth_service
             /\ IF RealmKnown(auth_realm')
                THEN /\ tok' = [tok EXCEPT !.posts = @ + 1, !.realm = auth_realm']
                     /\ pc' = "post"
                ELSE /\ tok' = [tok EXCEPT !.result = "None"]
                     /\ pc' = "idle"
    /\ UNCHANGED <<auth_type, username, password, cached_token, token_expires_at,
                   now, req, hdr, sentExpired, serverVars, callVars, sessionVars,
                   logVars, workerVars, tagVars, statusVars, redactVars,
                   probeVars, configVars>>

\* the answer to the token POST: an exception; a non-200 answer; a 200
\* answer whose body is not JSON or holds no token; a 200 answer with a
\* token, an expires_in and with or without issued_at
TokenPostResponse ==
    /\ pc = "post" /\ tok.result = "pending"
    /\ pc' = "idle"
    /\ \/ /\ tok' = [tok EXCEPT !.result = "None", !.exc = "post"]
          /\ UNCHANGED <<cached_token, token_expires_at>>
       \/ \E st \in {200, 401, 500} :
             /\ tok' = [tok EXCEPT !.result = "None", !.post_status = st]
             /\ UNCHANGED <<cached_token, token_expires_at>>
       \/ \E e \in ExpiresInAnswers, issued_at \in BOOLEAN :
             /\ tok' = [tok EXCEPT
                          !.result = IF ExpiryRaises(e) THEN "None" ELSE "token",
                          !.exc = IF ExpiryRaises(e) THEN "post" ELSE "none",
                          !.post_status = 200,
                          !.token_answer = TRUE, !.at = now, !.expires_in = e,
                          !.issued_at = issued_at]
             /\ cached_token' = 1
             /\ token_expires_at' = TokenExpiresAt(e, token_expires_at, now)
    /\ UNCHANGED <<auth_type, username, password, auth_realm, auth_service, now,
                   req, hdr, sentExpired, serverVars, callVars, sessionVars,
                   logVars, workerVars, tagVars, statusVars, redactVars,
                   probeVars, configVars>>

\* time passes
TokenTick ==
    /\ now < MaxTime
    /\ now' = now + 1
    /\ UNCHANGED <<auth_type, username, password, cached_token, token_expires_at,
                   auth_realm, auth_service, pc, req, hdr, sentExpired, tok,
                   serverVars, callVars, sessionVars, logVars, workerVars,
                   tagVars, statusVars, redactVars, probeVars, configVars>>

NextToken ==
    \/ GetRegistryToken
    \/ TokenProbeResponse
    \/ TokenPostResponse
    \/ TokenTick

SpecToken == InitToken /\ [][NextToken]_vars

----------------------------------------------------------------------------
(* Claims about _get_registry_token (SpecToken)                            *)

\* C23: a _get_registry_token call issues at most one challenge probe and
\* one token POST; it returns None without a POST when username or password
\* is missing or when no realm is known after the probe part; it returns
\* None when the probe or the POST raised and when the token answer is not
\* 200; it returns a token only from a 200 token answer.
C23_TokenAcquisition ==
    /\ tok.probes <= 1 /\ tok.posts <= 1
    /\ tok.result \in {"None", "token"} => pc = "idle"
    /\ (tok.result # "none" /\ (~username \/ ~password)) =>
          (tok.result = "None" /\ tok.probes = 0 /\ tok.posts = 0)
    /\ tok.posts = 1 => (tok.realm /\ auth_realm)
    /\ (pc = "idle" /\ tok.result # "none" /\ ~auth_realm) =>
          (tok.result = "None" /\ tok.posts = 0)
    /\ tok.exc # "none" => tok.result = "None"
    /\ (tok.posts = 1 /\ tok.post_status \notin {-1, 200}) => tok.result = "None"
    /\ tok.result = "token" =>
          (tok.posts = 1 /\ tok.post_status = 200 /\ tok.exc = "none")

\* C31: after a 200 token answer that holds a token, token_expires_at is the
\* time of the answer plus expires_in when the answer provides expires_in
\* and plus 300 otherwise, with or without issued_at; a cached token always
\* has an expiry.
C31_TokenLifetime ==
    /\ (tok.token_answer /\ tok.expires_in.numeric) =>
          token_expires_at =
             tok.at + (IF tok.expires_in.given THEN tok.expires_in.value
                       ELSE DefaultTokenLifetime)
    /\ cached_token # 0 => token_expires_at # 0

\* a call whose challenge named a service but no realm ended without a POST
C23_Witness ==
    /\ pc = "idle"
    /\ tok.result = "None"
    /\ tok.probes = 1 /\ tok.posts = 0 /\ tok.exc = "none"
    /\ ~auth_realm /\ auth_service

----------------------------------------------------------------------------
(* Claims about _make_request and _get_auth_headers (SpecAuth)             *)

\* C7: within one _make_request call the endpoint GET is issued at most
\* twice; a second GET means the first answer was 401, username and password
\* are configured, auth_type is not basic and a token was acquired; the
\* answer to the second GET is what the call returns.
C7_SingleUpgrade ==
    /\ req.gets <= 2
    /\ req.gets = 2 =>
          /\ req.first = 401
          /\ username /\ password
          /\ auth_type # "basic"
          /\ req.token
    /\ (pc = "idle" /\ req.gets = 2) => req.returned = req.second

\* a call whose second GET was answered 401 as well, and returned it
C7_Witness ==
    /\ pc = "idle"
    /\ req.gets = 2
    /\ req.first = 401 /\ req.second = 401 /\ req.returned = 401

\* C8: in auth mode token, _get_auth_headers gives the Bearer header of the
\* cached token exactly when a token is cached and it has no expiry or the
\* clock is before the expiry; called with an expired token it gives {} and
\* empties the cache; no request carries a cached token at or after its
\* expiry.
C8_TokenExpiry ==
    /\ (hdr.called /\ hdr.mode = "token") =>
          /\ (hdr.header = "bearer_token") <=>
                (/\ hdr.token_before # 0
                 /\ (hdr.expires_before = 0 \/ hdr.at < hdr.expires_before))
          /\ (/\ hdr.token_before # 0
              /\ hdr.expires_before # 0
              /\ hdr.at >= hdr.expires_before)
             => (hdr.header = "none" /\ hdr.token_after = 0)
    /\ ~sentExpired

\* _get_auth_headers was called at the very second the cached token expires
C8_Witness ==
    /\ hdr.called /\ hdr.mode = "token"
    /\ hdr.token_before # 0
    /\ hdr.at = hdr.expires_before
    /\ hdr.header = "none"
    /\ hdr.token_after = 0

\* the header of mode token: the cached token while it is unexpired
TokenModeHeader ==
    IF /\ hdr.token_before # 0
       /\ (hdr.expires_before = 0 \/ hdr.at < hdr.expires_before)
    THEN "bearer_token" ELSE "none"

\* C30 (as stated): _get_auth_headers returns {} for mode none, Basic
\* base64(user:pass) for mode basic, for mode bearer Bearer
\* base64(user:pass) when username and password are both set and Bearer
\* <password> otherwise, and for mode token the cached token while it is
\* unexpired and {} otherwise.
C30_AuthHeaderPerMode ==
    hdr.called =>
        /\ hdr.mode = "none" => hdr.header = "none"
        /\ hdr.mode = "basic" => hdr.header = "basic"
        /\ hdr.mode = "bearer" =>
              hdr.header = IF username /\ password THEN "bearer_credentials"
                           ELSE "bearer_password"
        /\ hdr.mode = "token" => hdr.header = TokenModeHeader

\* C30 (amended): as above, but mode basic gives {} unless username and
\* password are both set, and mode bearer gives Bearer <password> when only
\* the password is set and {} when no password is set.
C30_AuthHeaderPerModeConfigured ==
    hdr.called =>
        /\ hdr.mode = "none" => hdr.header = "none"
        /\ hdr.mode = "basic" =>
              hdr.header = IF username /\ password THEN "basic" ELSE "none"
        /\ hdr.mode = "bearer" =>
              hdr.header = IF username /\ password THEN "bearer_credentials"
                           ELSE IF password THEN "bearer_password"
                           ELSE "none"
        /\ hdr.mode = "token" => hdr.header = TokenModeHeader

\* a bearer client with username and password sent Bearer
\* base64(username:password)
C30_Witness ==
    /\ hdr.called
    /\ hdr.mode = "bearer"
    /\ username /\ password
    /\ hdr.header = "bearer_credentials"

\* C11: every HTTP request a client call issued (endpoint GETs, the /v2/
\* challenge probe, the token POST) has its own audit record once the call
\* has returned to the manager.
C11_EveryCallAudited ==
    (pc = "idle" /\ req.gets >= 1) => req.logged = req.sent

\* C13 (as stated): an exception during the GET or during the token upgrade
\* inside _make_request gives a returned record with status_code 0 and an
\* error field, and status_code 0 is returned only then.
C13_TransportFailures ==
    (pc = "idle" /\ req.gets >= 1) =>
        /\ req.exc # "none" => (req.returned = 0 /\ req.error)
        /\ req.returned = 0 => (req.exc # "none" /\ req.error)

\* C13 (amended): an exception during an endpoint GET gives a returned
\* record with status_code 0 and an error field, and status_code 0 is
\* returned only then; an exception during token acquisition (challenge
\* probe or token POST) is absorbed there: no token, no retry, and the 401
\* answer of the first GET is returned.
C13_TransportRecords ==
    (pc = "idle" /\ req.gets >= 1) =>
        /\ req.exc \in {"get1", "get2"} <=> req.returned = 0
        /\ req.returned = 0 <=> req.error
        /\ req.exc \in {"probe", "post"} =>
              (req.returned = 401 /\ req.first = 401 /\ ~req.token /\ req.gets = 1)

\* the retry GET after a token upgrade raised
C13_Witness ==
    /\ pc = "idle"
    /\ req.gets = 2 /\ req.token
    /\ req.exc = "get2"
    /\ req.returned = 0 /\ req.error

----------------------------------------------------------------------------
(* SpecLog: the audit log shared by every client call and the debug console *)

MaxAppends == 102     \* add_api_call runs at most this often on one log

LogCapacity == 100    \* if len(self.api_call_log) > 100
MockCallCount == 6    \* the records of MockDebugData._generate_mock_calls

\* mock_debug.get_mock_calls(): the seed records, told apart from recorded
\* calls by their sign
MockCalls == [i \in 1..MockCallCount |-> 0 - i]

\* self.api_call_log[-100:] when the log is longer than 100
MutTrimLog(log) == log

TrimLog(log) ==
    IF Len(log) > LogCapacity
    THEN SubSeq(log, Len(log) - LogCapacity + 1, Len(log))
    ELSE log

\* the log action_purge leaves behind
MutPurgedLog(mock) == <<>>

PurgedLog(mock) == IF mock THEN MockCalls ELSE <<>>

InitLog ==
    /\ mock_mode \in BOOLEAN
    /\ ManagerInit
    /\ mock_data_loaded = FALSE
    /\ nextId = 1 /\ hist = <<>> /\ lastOp = NoOp
    /\ ServerIdle /\ CallIdle /\ SessionIdle /\ AuthIdle /\ WorkerIdle /\ TagsIdle /\ StatusIdle /\ TokenIdle /\ RedactIdle /\ ProbeIdle /\ ConfigIdle

\* RegistryManager.add_api_call; records are numbered since the log was last
\* emptied
AddApiCall ==
    /\ nextId <= MaxAppends
    /\ api_call_log' = TrimLog(Append(api_call_log, nextId))
    /\ hist' = Append(hist, nextId)
    /\ nextId' = nextId + 1
    /\ lastOp' = [op |-> "add", before |-> Len(api_call_log)]
    /\ UNCHANGED <<mock_mode, mock_data_loaded,
                   serverVars, callVars, sessionVars, authVars, workerVars,
                   tagVars, statusVars, tokenVars, redactVars, probeVars,
                   configVars>>

\* DebugConsoleScreen.load_api_calls (on_mount, action_refresh): seeds an
\* empty log in mock mode
LoadApiCalls ==
    /\ IF mock_mode /\ api_call_log = <<>> /\ ~mock_data_loaded
       THEN /\ api_call_log' = api_call_log \o MockCalls
            /\ hist' = hist \o MockCalls
            /\ mock_data_loaded' = TRUE
       ELSE UNCHANGED <<api_call_log, hist, mock_data_loaded>>
    /\ lastOp' = [op |-> "load", before |-> Len(api_call_log)]
    /\ UNCHANGED <<mock_mode, nextId, serverVars, callVars, sessionVars, authVars,
                   workerVars, tagVars, statusVars, tokenVars, redactVars,
                   probeVars, configVars>>

\* DebugConsoleScreen.action_purge, with the load_api_calls it ends with
ActionPurge ==
    /\ api_call_log' = PurgedLog(mock_mode)
    /\ mock_data_loaded' = mock_mode
    /\ hist' = api_call_log'
    /\ nextId' = 1
    /\ lastOp' = [op |-> "purge", before |-> Len(api_call_log)]
    /\ UNCHANGED <<mock_mode, serverVars, callVars, sessionVars, authVars,
                   workerVars, tagVars, statusVars, tokenVars, redactVars,
                   probeVars, configVars>>

NextLog ==
    \/ AddApiCall
    \/ LoadApiCalls
    \/ ActionPurge

SpecLog == InitLog /\ [][NextLog]_vars

----------------------------------------------------------------------------
(* Claims about the audit log (SpecLog)                                    *)

\* C9: the log never holds more than 100 records, and it is the most recent
\* min(n, 100) of the n records put into it, in their original order.
C9_AuditLogBound ==
    /\ Len(api_call_log) <= LogCapacity
    /\ api_call_log = SubSeq(hist, Len(hist) - Min2(Len(hist), LogCapacity) + 1,
                             Len(hist))

\* more than 100 records were appended: the oldest ones are gone
C9_Witness ==
    /\ lastOp.op = "add"
    /\ Len(hist) > LogCapacity
    /\ Len(api_call_log) = LogCapacity
    /\ api_call_log[1] = hist[Len(hist) - LogCapacity + 1]
    /\ api_call_log[1] # hist[1]

\* C10 (as stated): after the purge action the log has 0 entries, in every
\* run mode.
C10_PurgeEmpties == lastOp.op = "purge" => Len(api_call_log) = 0

\* C10 (amended): after the purge action the log has 0 entries outside mock
\* mode; in mock mode it holds exactly the mock seed records and none of the
\* records it held before.
C10_PurgeResets ==
    lastOp.op = "purge" =>
        /\ ~mock_mode => Len(api_call_log) = 0
        /\ mock_mode =>
              /\ Len(api_call_log) = MockCallCount
              /\ \A i \in 1..Len(api_call_log) : api_call_log[i] < 0
              /\ mock_data_loaded

\* a full log was purged in mock mode
C10_Witness ==
    /\ lastOp.op = "purge"
    /\ lastOp.before = LogCapacity
    /\ mock_mode
    /\ Len(api_call_log) = MockCallCount

----------------------------------------------------------------------------
(* SpecEnrich: the tags requests of one pagination step, get_repositories  *)
(* or continue_repositories_pagination, on catalogs around the 50-name     *)
(* threshold (uses the variables of SpecCall)                              *)

EnrichSizes == {0, 1, TagLoadMax, TagLoadMax + 1, PageMax + 1}
EnrichCaps == {TagLoadMax, TagLoadMax + 1, PageMax}
EnrichLimits == {TagLoadMax, TagLoadMax + 1, PageMax}
EnrichTokens == {2, TagLoadMax + 1}

InitEnrich ==
    /\ srvN \in EnrichSizes
    /\ srvCap \in EnrichCaps
    /\ srvEager \in BOOLEAN
    /\ srvNextParam = TRUE
    /\ srvCatalog = "ok"
    /\ monitored_repos \in {<<>>, <<1>>}
    /\ srvTags \in TagConfigs(monitored_repos)
    /\ callOffset \in 0..MaxOffset
    /\ callLimit \in EnrichLimits
    /\ callDone = FALSE
    /\ callResult = NoResult
    /\ SessionIdle /\ AuthIdle /\ LogIdle /\ WorkerIdle /\ TagsIdle /\ StatusIdle /\ TokenIdle /\ RedactIdle /\ ProbeIdle /\ ConfigIdle

\* get_repositories(limit=callLimit, offset=callOffset)
EnrichGetRepositories ==
    /\ ~callDone
    /\ callDone' = TRUE
    /\ callResult' = GetRepositories(Srv, callLimit, monitored_repos, callOffset)
    /\ UNCHANGED <<serverVars, callOffset, callLimit, sessionVars, authVars, logVars,
                   workerVars, tagVars, statusVars, tokenVars, redactVars,
                   probeVars, configVars>>

\* continue_repositories_pagination(next_page_token, page_size=callLimit)
EnrichContinue ==
    /\ ~callDone
    /\ callDone' = TRUE
    /\ \E token \in EnrichTokens :
          callResult' = ContinueRepositoriesPagination(Srv, token, callLimit, FALSE, 0)
    /\ UNCHANGED <<serverVars, callOffset, callLimit, sessionVars, authVars, logVars,
                   workerVars, tagVars, statusVars, tokenVars, redactVars,
                   probeVars, configVars>>

NextEnrich == EnrichGetRepositories \/ EnrichContinue

SpecEnrich == InitEnrich /\ [][NextEnrich]_vars

\* C29: one get_repositories or continue_repositories_pagination call issues
\* tags requests for catalog entries only when the window or page it
\* enriches has at most 50 repositories; above 50 it issues none and every
\* catalog entry has the tag_count "Many"; so a step issues at most 50
\* catalog tags requests.
C29_TagEnrichmentBound ==
    callDone =>
        LET rows == SelectSeq(callResult.repositories, LAMBDA e : ~e.is_monitored)
        IN  /\ callResult.tag_requests <= TagLoadMax
            /\ callResult.tag_requests > 0 => callResult.enriched <= TagLoadMax
            /\ callResult.enriched > TagLoadMax =>
                  /\ callResult.tag_requests = 0
                  /\ \A i \in 1..Len(rows) : rows[i].tag_count = "Many"

\* a page of 51 repositories came back without a tags request
C29_Witness ==
    /\ callDone
    /\ ~callResult.raised
    /\ callResult.enriched = TagLoadMax + 1
    /\ callResult.tag_requests = 0
    /\ Len(callResult.repositories) >= TagLoadMax + 1

(***************************************************************************)
(* SpecRedact: one key/value pair through TUIDebugLogger's mask, through   *)
(* the transport's response-header filter, and the entries the other       *)
(* writers hand to add_api_call.  Strings are sequences of characters.     *)
(***************************************************************************)
MaxValLen == 9
MaxCredLen == 24
AuthFormatMax == 30
ShortValueMax == 8
MaskKeep == 3

UpperCase == <<"A","B","C","D","E","F","G","H","I","J","K","L","M",
               "N","O","P","Q","R","S","T","U","V","W","X","Y","Z">>
LowerCase == <<"a","b","c","d","e","f","g","h","i","j","k","l","m",
               "n","o","p","q","r","s","t","u","v","w","x","y","z">>

\* str.lower(), character by character
LowerChar(c) ==
    IF \E i \in 1..26 : UpperCase[i] = c
    THEN LowerCase[CHOOSE i \in 1..26 : UpperCase[i] = c]
    ELSE c

lower(s) == [i \in 1..Len(s) |-> LowerChar(s[i])]

\* Python's "kw in s" on strings
Contains(kw, s) ==
    \E i \in 0..(Len(s) - Len(kw)) : SubSeq(s, i + 1, i + Len(kw)) = kw

\* s.startswith(p)
StartsWith(p, s) == Len(s) >= Len(p) /\ SubSeq(s, 1, Len(p)) = p

sensitive_keywords ==
    { <<"p", "a", "s", "s", "w", "o", "r", "d">>,
      <<"p", "a", "s", "s", "w", "d">>,
      <<"p", "a", "s", "s">>,
      <<"p", "a", "s", "s", "p", "h", "r", "a", "s", "e">>,
      <<"p", "w", "d">>,
      <<"c", "a", "c", "h", "e", "d", "_", "t", "o", "k", "e", "n">>,
      <<"a", "c", "c", "e", "s", "s", "_", "t", "o", "k", "e", "n">>,
      <<"r", "e", "f", "r", "e", "s", "h", "_", "t", "o", "k", "e", "n">>,
      <<"b", "e", "a", "r", "e", "r", "_", "t", "o", "k", "e", "n">>,
      <<"c", "r", "e", "d", "e", "n", "t", "i", "a", "l">>,
      <<"c", "r", "e", "d">>,
      <<"c", "r", "e", "d", "s">>,
      <<"c", "r", "e", "d", "e", "n", "t", "i", "a", "l", "s">>,
      <<"a", "u", "t", "h", "o", "r", "i", "z", "a", "t", "i", "o", "n">>,
      <<"a", "u", "t", "h", "e", "n", "t", "i", "c", "a", "t", "e">>,
      <<"s", "e", "c", "r", "e", "t">>,
      <<"p", "r", "i", "v", "a", "t", "e">>,
      <<"a", "p", "i", "_", "k", "e", "y">>,
      <<"a", "p", "i", "k", "e", "y">>,
      <<"a", "c", "c", "e", "s", "s", "_", "k", "e", "y">>,
      <<"r", "o", "b", "o", "t", "_", "t", "o", "k", "e", "n">>,
      <<"s", "e", "r", "v", "i", "c", "e", "_", "t", "o", "k", "e", "n">>,
      <<"s", "e", "r", "v", "i", "c", "e", "_", "k", "e", "y">>,
      <<"o", "a", "u", "t", "h", "_", "t", "o", "k", "e", "n">>,
      <<"j", "w", "t", "_", "t", "o", "k", "e", "n">>,
      <<"r", "e", "g", "i", "s", "t", "r", "y", "_", "t", "o", "k", "e", "n">>,
      <<"d", "o", "c", "k", "e", "r", "_", "t", "o", "k", "e", "n">>,
      <<"q", "u", "a", "y", "_", "t", "o", "k", "e", "n">>,
      <<"x", "-", "a", "u", "t", "h">>,
      <<"w", "w", "w", "-", "a", "u", "t", "h", "e", "n", "t", "i", "c", "a", "t", "e">> }

safe_headers ==
    { <<"c", "o", "n", "t", "e", "n", "t", "-", "t", "y", "p", "e">>,
      <<"c", "o", "n", "t", "e", "n", "t", "-", "l", "e", "n", "g", "t", "h">>,
      <<"c", "o", "n", "t", "e", "n", "t", "-", "e", "n", "c", "o", "d", "i", "n", "g">>,
      <<"d", "a", "t", "e">>,
      <<"c", "a", "c", "h", "e", "-", "c", "o", "n", "t", "r", "o", "l">>,
      <<"e", "x", "p", "i", "r", "e", "s">>,
      <<"l", "a", "s", "t", "-", "m", "o", "d", "i", "f", "i", "e", "d">>,
      <<"l", "i", "n", "k">>,
      <<"l", "o", "c", "a", "t", "i", "o", "n">>,
      <<"d", "o", "c", "k", "e", "r", "-", "c", "o", "n", "t", "e", "n", "t", "-", "d", "i", "g", "e", "s", "t">>,
      <<"d", "o", "c", "k", "e", "r", "-", "d", "i", "s", "t", "r", "i", "b", "u", "t", "i", "o", "n", "-", "a", "p", "i", "-", "v", "e", "r", "s", "i", "o", "n">>,
      <<"x", "-", "r", "a", "t", "e", "l", "i", "m", "i", "t", "-", "l", "i", "m", "i", "t">>,
      <<"x", "-", "r", "a", "t", "e", "l", "i", "m", "i", "t", "-", "r", "e", "m", "a", "i", "n", "i", "n", "g">>,
      <<"x", "-", "r", "a", "t", "e", "l", "i", "m", "i", "t", "-", "r", "e", "s", "e", "t">>,
      <<"w", "w", "w", "-", "a", "u", "t", "h", "e", "n", "t", "i", "c", "a", "t", "e">>,
      <<"a", "c", "c", "e", "s", "s", "-", "c", "o", "n", "t", "r", "o", "l", "-", "a", "l", "l", "o", "w", "-", "o", "r", "i", "g", "i", "n">>,
      <<"a", "c", "c", "e", "s", "s", "-", "c", "o", "n", "t", "r", "o", "l", "-", "a", "l", "l", "o", "w", "-", "m", "e", "t", "h", "o", "d", "s">>,
      <<"s", "t", "r", "i", "c", "t", "-", "t", "r", "a", "n", "s", "p", "o", "r", "t", "-", "s", "e", "c", "u", "r", "i", "t", "y">>,
      <<"x", "-", "c", "o", "n", "t", "e", "n", "t", "-", "t", "y", "p", "e", "-", "o", "p", "t", "i", "o", "n", "s">> }

filter_keywords == { <<"a","u","t","h">>, <<"t","o","k","e","n">>,
                     <<"k","e","y">>, <<"s","e","c","r","e","t">> }

\* the keys and header names drawn
KeyPool ==
    { <<"A", "u", "t", "h", "o", "r", "i", "z", "a", "t", "i", "o", "n">>,
      <<"A", "U", "T", "H", "O", "R", "I", "Z", "A", "T", "I", "O", "N">>,
      <<"W", "W", "W", "-", "A", "u", "t", "h", "e", "n", "t", "i", "c", "a", "t", "e">>,
      <<"C", "o", "n", "t", "e", "n", "t", "-", "T", "y", "p", "e">>,
      <<"X", "-", "R", "e", "q", "u", "e", "s", "t", "-", "I", "d">>,
      <<"X", "-", "A", "u", "t", "h", "-", "T", "o", "k", "e", "n">>,
      <<"p", "a", "s", "s", "w", "o", "r", "d">>,
      <<"a", "u", "t", "h", "_", "t", "y", "p", "e">> }

ValChars == {"s", "."}
StrValues == UNION { [1..n -> ValChars] : n \in 0..MaxValLen }

Redacted == <<"[","R","E","D","A","C","T","E","D","]">>
Ellipsis == <<".", ".", ".">>
NoneText == <<"N","o","n","e">>

\* str(value): a string is itself, the non-string drawn is None
StrOf(value, is_str) == IF is_str THEN value ELSE NoneText

Sensitive(key) == \E kw \in sensitive_keywords : Contains(kw, lower(key))

\* TUIDebugLogger._mask_sensitive_data
MaskSensitiveData(key, value, is_str) ==
    IF Sensitive(key)
    THEN IF is_str /\ Len(value) > 0
         THEN IF Len(value) <= ShortValueMax
              THEN Redacted
              ELSE SubSeq(value, 1, MaskKeep) \o Ellipsis
                   \o SubSeq(value, Len(value) - MaskKeep + 1, Len(value))
         ELSE Redacted
    ELSE StrOf(value, is_str)

\* RegistryClient._filter_response_headers on one header: is it kept
FilterKeeps(key) ==
    \/ lower(key) \in safe_headers
    \/ /\ StartsWith(<<"x", "-">>, lower(key))
       /\ ~ \E w \in filter_keywords : Contains(w, lower(key))

\* base64 text of n bytes is 4 * ceil(n / 3) characters long
Base64Len(n) == 4 * ((n + 2) \div 3)

BasicPrefix == <<"B","a","s","i","c"," ">>
BearerPrefix == <<"B","e","a","r","e","r"," ">>

\* the Authorization header the connection test sends: a scheme word
\* and the base64 text of user:password (n bytes)
AuthHeaderSent(type, n) ==
    LET text == [i \in 1..Base64Len(n) |-> "s"]
    IN CASE type = "basic" -> BasicPrefix \o text
         [] type = "bearer" -> BearerPrefix \o text
         [] OTHER -> <<>>

\* auth_header[:30] + "..." if len(auth_header) > 30 else auth_header
AuthFormat(header) ==
    IF Len(header) > AuthFormatMax
    THEN SubSeq(header, 1, AuthFormatMax) \o Ellipsis
    ELSE header

InitRedact ==
    /\ rKey \in KeyPool
    /\ rIsStr \in BOOLEAN
    /\ rValue \in (IF rIsStr THEN StrValues ELSE {<<>>})
    /\ stored = NoEntry
    /\ ServerIdle /\ CallIdle /\ SessionIdle /\ AuthIdle /\ LogIdle /\ WorkerIdle /\ TagsIdle /\ StatusIdle /\ TokenIdle /\ ProbeIdle /\ ConfigIdle

\* TUIDebugLogger.debug / info / error with rKey = rValue as keyword
DebugLog ==
    /\ stored = NoEntry
    /\ stored' = [NoEntry EXCEPT !.writer = "debug", !.kept = TRUE,
                    !.value = MaskSensitiveData(rKey, rValue, rIsStr)]
    /\ UNCHANGED <<rKey, rValue, rIsStr>>
    /\ UNCHANGED <<serverVars, callVars, sessionVars, authVars, logVars,
                   workerVars, tagVars, statusVars, tokenVars, probeVars,
                   configVars>>

\* RegistryClient._make_request: the record of an answer whose one
\* header is rKey: rValue
TransportRecord ==
    /\ stored = NoEntry
    /\ rIsStr
    /\ stored' = [NoEntry EXCEPT !.writer = "transport",
                    !.kept = FilterKeeps(rKey),
                    !.value = IF FilterKeeps(rKey) THEN rValue ELSE <<>>]
    /\ UNCHANGED <<rKey, rValue, rIsStr>>
    /\ UNCHANGED <<serverVars, callVars, sessionVars, authVars, logVars,
                   workerVars, tagVars, statusVars, tokenVars, probeVars,
                   configVars>>

\* RegistryConfigModal.test_connection's authentication entry, handed to
\* log_to_debug and from there to add_api_call as it is
ModalTestConnection ==
    /\ stored = NoEntry
    /\ rIsStr
    /\ \E type \in {"basic", "bearer", "token"}, n \in 3..MaxCredLen,
          status \in {200, 401} :
          LET header == AuthHeaderSent(type, n)
          IN stored' = [writer |-> "modal_test",
                        kept |-> status # 200,
                        value |-> IF status # 200 THEN rValue ELSE <<>>,
                        auth_format |-> AuthFormat(header),
                        auth_header |-> header,
                        filtered |-> status = 200]
    /\ UNCHANGED <<rKey, rValue, rIsStr>>
    /\ UNCHANGED <<serverVars, callVars, sessionVars, authVars, logVars,
                   workerVars, tagVars, statusVars, tokenVars, probeVars,
                   configVars>>

\* RegistryConfigModal's save entry: username and bool(password) only
ModalSave ==
    /\ stored = NoEntry
    /\ stored' = [NoEntry EXCEPT !.writer = "modal_save"]
    /\ UNCHANGED <<rKey, rValue, rIsStr>>
    /\ UNCHANGED <<serverVars, callVars, sessionVars, authVars, logVars,
                   workerVars, tagVars, statusVars, tokenVars, probeVars,
                   configVars>>

\* LocalContainerClient's entry: the command line and its output
LocalRuntimeEntry ==
    /\ stored = NoEntry
    /\ stored' = [NoEntry EXCEPT !.writer = "local"]
    /\ UNCHANGED <<rKey, rValue, rIsStr>>
    /\ UNCHANGED <<serverVars, callVars, sessionVars, authVars, logVars,
                   workerVars, tagVars, statusVars, tokenVars, probeVars,
                   configVars>>

NextRedact ==
    \/ DebugLog
    \/ TransportRecord
    \/ ModalTestConnection
    \/ ModalSave
    \/ LocalRuntimeEntry

SpecRedact == InitRedact /\ [][NextRedact]_vars

\* C24: a value logged or recorded under a key that is Authorization or
\* contains a sensitive keyword is never stored as it was: the mask gives
\* [REDACTED] for at most 8 characters and first 3, "...", last 3 for
\* more, and the header filter never keeps an Authorization header.
C24_SensitiveNeverVerbatim ==
    /\ (stored.writer = "debug" /\ Sensitive(rKey)) =>
          /\ stored.value =
                IF ~rIsStr \/ Len(rValue) <= ShortValueMax
                THEN Redacted
                ELSE SubSeq(rValue, 1, MaskKeep) \o Ellipsis
                     \o SubSeq(rValue, Len(rValue) - MaskKeep + 1, Len(rValue))
          /\ (rIsStr /\ rValue # <<>>) => stored.value # rValue
    /\ stored.writer = "transport" =>
          /\ lower(rKey) = <<"a","u","t","h","o","r","i","z","a","t","i","o","n">>
                => ~stored.kept
          /\ (Sensitive(rKey) /\ stored.kept /\ rValue # <<>>)
                => stored.value # rValue

\* some character of the credentials after the scheme word of the header
\* stands in the text at the place it has in the header
ClearPrefix(text, header) ==
    \E k \in 1..Len(header) :
        /\ k > Len(BearerPrefix)
        /\ Len(text) >= k
        /\ SubSeq(text, 1, k) = SubSeq(header, 1, k)

\* C25: no entry handed to add_api_call by any writer holds an
\* Authorization header value or a prefix of one in clear, nor response
\* headers that did not pass the header filter.
C25_UniformRedaction ==
    stored.writer \in {"transport", "modal_test", "modal_save", "local"} =>
        /\ ~ClearPrefix(stored.auth_format, stored.auth_header)
        /\ stored.kept => (stored.filtered /\ FilterKeeps(rKey))

----------------------------------------------------------------------------
(* SpecConfig: saving a registry's configuration through the modal.  The   *)
(* configuration of a registry is cut down to auth_type, max_repos and     *)
(* monitored_repos; the config file keeps max_repos and monitored_repos.   *)
(* config_message is the ConfigSaved message until both screens have       *)
(* handled it (handled_app, handled_screen).                               *)

\* config.get(key, default) on the dict of a ConfigSaved message
ConfigGet(config, key, default) ==
    IF key \in DOMAIN config THEN config[key] ELSE default

\* the values the user can leave in the form
FormLimits == {1, DefaultLimit}

\* the in-memory entry both handlers build from the message
MemoryConfig(config) ==
    [auth_type       |-> ConfigGet(config, "auth_type", "none"),
     max_repos       |-> ConfigGet(config, "max_repos", DefaultLimit),
     monitored_repos |-> ConfigGet(config, "monitored_repos", <<>>)]

\* what save_registry_config writes for the registry
FileConfig(config) ==
    [max_repos       |-> ConfigGet(config, "max_repos", DefaultLimit),
     monitored_repos |-> ConfigGet(config, "monitored_repos", <<>>)]

\* the monitored lists of registry u
MonitoredNow(u) ==
    [app    |-> app_registry_config[u].monitored_repos,
     file   |-> file_registry_config[u].monitored_repos,
     screen |-> screen_registry_config.monitored_repos]

\* navigate_to_repositories: a RepositoryScreen for registry u is pushed
\* with the app's configuration of u
NavigateToRepositories ==
    /\ config_message = NoMessage
    /\ \E u \in DOMAIN app_registry_config :
          /\ screen_url' = u
          /\ screen_registry_config' = app_registry_config[u]
    /\ UNCHANGED <<app_registry_config, file_registry_config, config_message,
                   saved_before>>
    /\ UNCHANGED <<serverVars, callVars, sessionVars, authVars, logVars,
                   workerVars, tagVars, statusVars, tokenVars, redactVars,
                   probeVars>>

\* RegistryConfigModal.save_configuration for registry u: the config dict is
\* built from the form and posted
SaveConfiguration ==
    /\ config_message = NoMessage
    /\ \E u \in DOMAIN app_registry_config, type \in AuthTypes, limit \in FormLimits :
          /\ config_message' =
                [registry_url |-> u, auth_type |-> type, max_repos |-> limit,
                 handled_app |-> FALSE, handled_screen |-> FALSE]
          /\ saved_before' = MonitoredNow(u)
    /\ UNCHANGED <<app_registry_config, file_registry_config, screen_url,
                   screen_registry_config>>
    /\ UNCHANGED <<serverVars, callVars, sessionVars, authVars, logVars,
                   workerVars, tagVars, statusVars, tokenVars, redactVars,
                   probeVars>>

\* the message has been handled by the app and by the open screen, if any
Handled(msg) ==
    IF msg.handled_app /\ (msg.handled_screen \/ screen_url = 0)
    THEN NoMessage ELSE msg

\* ContainerCardCatalog.on_registry_config_modal_config_saved: the entry of
\* the registry is replaced and written to the config file (saved tells
\* whether the write succeeded)
AppConfigSaved ==
    /\ config_message # NoMessage
    /\ ~config_message.handled_app
    /\ app_registry_config' =
          [app_registry_config EXCEPT ![config_message.registry_url] =
              MemoryConfig(config_message)]
    /\ \E saved \in BOOLEAN :
          file_registry_config' =
             IF saved
             THEN [file_registry_config EXCEPT ![config_message.registry_url] =
                      FileConfig(config_message)]
             ELSE file_registry_config
    /\ config_message' = Handled([config_message EXCEPT !.handled_app = TRUE])
    /\ UNCHANGED <<screen_url, screen_registry_config, saved_before>>
    /\ UNCHANGED <<serverVars, callVars, sessionVars, authVars, logVars,
                   workerVars, tagVars, statusVars, tokenVars, redactVars,
                   probeVars>>

\* RepositoryScreen.on_registry_config_modal_config_saved: the screen's
\* registry_config is replaced when the message is for its registry
ScreenConfigSaved ==
    /\ config_message # NoMessage
    /\ screen_url # 0
    /\ ~config_message.handled_screen
    /\ screen_registry_config' =
          IF config_message.registry_url = screen_url
          THEN MemoryConfig(config_message)
          ELSE screen_registry_config
    /\ config_message' = Handled([config_message EXCEPT !.handled_screen = TRUE])
    /\ UNCHANGED <<app_registry_config, file_registry_config, screen_url,
                   saved_before>>
    /\ UNCHANGED <<serverVars, callVars, sessionVars, authVars, logVars,
                   workerVars, tagVars, statusVars, tokenVars, redactVars,
                   probeVars>>

\* the app after __init__: the saved configuration of every registry is
\* loaded into memory, without credentials
InitConfig ==
    /\ ServerIdle /\ CallIdle /\ SessionIdle /\ AuthIdle /\ LogIdle /\ WorkerIdle /\ TagsIdle /\ StatusIdle /\ TokenIdle /\ RedactIdle /\ ProbeIdle
    /\ file_registry_config \in
          [1..MaxRegs -> [max_repos : FormLimits, monitored_repos : SessionMonConfigs]]
    /\ app_registry_config =
          [u \in 1..MaxRegs |->
              [auth_type       |-> "none",
               max_repos       |-> file_registry_config[u].max_repos,
               monitored_repos |-> file_registry_config[u].monitored_repos]]
    /\ screen_url = 0
    /\ screen_registry_config = NoScreenConfig
    /\ config_message = NoMessage
    /\ saved_before = <<>>

NextConfig ==
    \/ NavigateToRepositories
    \/ SaveConfiguration
    \/ AppConfigSaved
    \/ ScreenConfigSaved

SpecConfig == InitConfig /\ [][NextConfig]_vars

\* C37: saving a registry's configuration through the modal leaves its
\* monitored_repos as they were, in the registry_config of the app, in that
\* of the open RepositoryScreen of the registry and in the config file.
C37_SaveKeepsMonitored ==
    [][/\ AppConfigSaved =>
            /\ app_registry_config'[config_message.registry_url].monitored_repos
                  = saved_before.app
            /\ file_registry_config'[config_message.registry_url].monitored_repos
                  = saved_before.file
       /\ (ScreenConfigSaved /\ config_message.registry_url = screen_url) =>
            screen_registry_config'.monitored_repos = saved_before.screen]_vars

====
